---- MODULE Spec2Model ----
(***************************************************************************)
(* Execution core of mloda: compute framework instances, their child      *)
(* accounting and data drop, the join step, the merge engine and the      *)
(* table exchange (flight server) they share.                             *)
(***************************************************************************)
EXTENDS Integers, Sequences, FiniteSets, TLC

VARIABLES
    phase,      \* "plan" while instances and steps are created, then "run"
    location,   \* the run's exchange location: NoLocation (sync/thread) or "loc"
    cfw,        \* slot -> fields of one ComputeFrameWork instance
    steps,      \* slot -> fields of one JoinStep
    flight,     \* FlightServer: object key -> table stored under it
    registry,   \* CfwManager: uuids known to have flight datasets
    next_uuid,  \* source of uuid4() values generated at run time
    last,       \* what the most recent operation was and what it returned
    hist,       \* bookkeeping for the properties: writers, drops, passed children
    feature_set, \* fields of the FeatureSet under construction (None outside SpecFs)
    sched       \* the scheduler: steps dispatched to workers and steps finished

vars == <<phase, location, cfw, steps, flight, registry, next_uuid, last, hist,
          feature_set, sched>>

----------------------------------------------------------------------------
(* Bounds of the model *)

\* longest object_ids list an instance may build up
MaxUploads == 2

\* instance slots and join-step slots of one run
Inst == {"cfw1", "cfw2"}
StepIds == {"js1", "js2"}

\* feature ids that can be declared as children / required by a join
ChildIds == {"c1", "c2"}

\* longest feature name handed to the name parser, in pieces
MaxNameLen == 7

\* most rows of a table handed to the imputation
MaxRows == 4

----------------------------------------------------------------------------
(* Values *)

NULL == 0 - 1

None == [kind |-> "none"]
Str(u) == [kind |-> "str", val |-> u]
Bool(b) == [kind |-> "bool", val |-> b]
FSet(s) == [kind |-> "frozenset", val |-> s]
Table(ptype, cols, rows) == [kind |-> "table", ptype |-> ptype, cols |-> cols, rows |-> rows]
Raise(what) == [kind |-> "raise", val |-> what]

IsStr(d) == d.kind = "str"
IsTable(d) == d.kind = "table"
IsRaise(d) == d.kind = "raise"

NoLocation == "none"
Truthy(loc) == loc # NoLocation

\* the uuid4() of the default argument, evaluated once when the class is defined
DefaultUuid == 0

SeqToSet(s) == {s[k] : k \in DOMAIN s}

RECURSIVE Flatten(_)
Flatten(ss) == IF ss = <<>> THEN <<>> ELSE Head(ss) \o Flatten(Tail(ss))

----------------------------------------------------------------------------
(* Tables and the merge engine *)

\* Index: an ordered tuple of column names
SimpleIdx == <<"id">>
CompositeIdx == <<"id", "A">>
is_multi_index(index) == Len(index) > 1

JoinTypes == {"inner", "left", "right", "outer"}

\* a stable sort of <<key, row>> pairs by key
InsertByKey(p, s) ==
    LET n == Cardinality({k \in DOMAIN s : s[k][1] <= p[1]})
    IN SubSeq(s, 1, n) \o <<p>> \o SubSeq(s, n + 1, Len(s))

RECURSIVE SortByKey(_)
SortByKey(s) ==
    IF s = <<>> THEN <<>>
    ELSE InsertByKey(s[Len(s)], SortByKey(SubSeq(s, 1, Len(s) - 1)))

\* pandas.merge(left, right, left_on=, right_on=, how=)
pd_merge(L, R, lon, ron, how) ==
    IF ~IsTable(L) \/ ~IsTable(R) THEN Raise("TypeError")
    ELSE IF L.ptype # "pd" \/ R.ptype # "pd" THEN Raise("TypeError")
    ELSE IF lon \notin L.cols \/ ron \notin R.cols THEN Raise("KeyError")
    ELSE
    LET same == lon = ron
        overlap == (L.cols \cap R.cols) \ (IF same THEN {lon} ELSE {})
        rkeep == R.cols \ (IF same THEN {ron} ELSE {})
        LName(c) == IF c \in overlap THEN c \o "_x" ELSE c
        RName(c) == IF c \in overlap THEN c \o "_y" ELSE c
        outL == {LName(c) : c \in L.cols}
        outR == {RName(c) : c \in rkeep}
        out == outL \cup outR
        clash == \/ outL \cap outR # {}
                 \/ Cardinality(outL) # Cardinality(L.cols)
                 \/ Cardinality(outR) # Cardinality(rkeep)
        LSrc(oc) == CHOOSE c \in L.cols : LName(c) = oc
        RSrc(oc) == CHOOSE c \in rkeep : RName(c) = oc
        Both(l, r) == [oc \in out |-> IF oc \in outL THEN l[LSrc(oc)] ELSE r[RSrc(oc)]]
        LeftOnly(l) == [oc \in out |-> IF oc \in outL THEN l[LSrc(oc)] ELSE NULL]
        RightOnly(r) ==
            [oc \in out |->
                IF oc \in outL
                THEN (IF same /\ LSrc(oc) = lon THEN r[ron] ELSE NULL)
                ELSE r[RSrc(oc)]]
        RMatches(l) == SelectSeq(R.rows, LAMBDA r : r[ron] = l[lon])
        LMatches(r) == SelectSeq(L.rows, LAMBDA l : l[lon] = r[ron])
        \* per left row, the <<key, row>> pairs it contributes
        FromLeft(l, keepUnmatched) ==
            LET ms == RMatches(l)
            IN IF ms = <<>>
               THEN (IF keepUnmatched THEN << <<l[lon], LeftOnly(l)>> >> ELSE <<>>)
               ELSE [k \in 1..Len(ms) |-> <<l[lon], Both(l, ms[k])>>]
        FromRight(r) ==
            LET ms == LMatches(r)
            IN IF ms = <<>>
               THEN << <<r[ron], RightOnly(r)>> >>
               ELSE [k \in 1..Len(ms) |-> <<r[ron], Both(ms[k], r)>>]
        LeftPairs(keepUnmatched) ==
            Flatten([k \in 1..Len(L.rows) |-> FromLeft(L.rows[k], keepUnmatched)])
        RightPairs == Flatten([k \in 1..Len(R.rows) |-> FromRight(R.rows[k])])
        RightUnmatched ==
            LET rs == SelectSeq(R.rows, LAMBDA r : LMatches(r) = <<>>)
            IN [k \in 1..Len(rs) |-> <<rs[k][ron], RightOnly(rs[k])>>]
        pairs == CASE how = "inner" -> LeftPairs(FALSE)
                   [] how = "left"  -> LeftPairs(TRUE)
                   [] how = "right" -> RightPairs
                   [] how = "outer" -> SortByKey(LeftPairs(TRUE) \o RightUnmatched)
    IN IF clash THEN Raise("MergeError")
       ELSE Table("pd", out, [k \in 1..Len(pairs) |-> pairs[k][2]])

\* the engine hierarchy: the base class and the dataframe backend's engine
MergeEngines == {"BaseMergeEngine", "PandasMergeEngine"}

\* join types that are not one of the dispatcher's four
OtherJoinTypes == {"append", "union"}

\* ValueError(f"JoinType {jointype} are not yet implemented {class name}")
NotYetImplemented(jointype, engine) ==
    Raise("JoinType " \o jointype \o " are not yet implemented " \o engine)

\* merge_logic joining on the first column of a composite index
MutMergeLogicFirstColumn(engine, join_type, left_data, right_data, left_index, right_index) ==
    pd_merge(left_data, right_data, left_index[1], right_index[1], join_type)

\* PandasMergeEngine.merge_logic
merge_logic(engine, join_type, left_data, right_data, left_index, right_index) ==
    IF is_multi_index(left_index) \/ is_multi_index(right_index)
    THEN Raise("MultiIndex is not yet implemented " \o engine)
    ELSE pd_merge(left_data, right_data, left_index[1], right_index[1], join_type)

merge_inner(engine, left_data, right_data, left_index, right_index) ==
    IF engine = "PandasMergeEngine"
    THEN merge_logic(engine, "inner", left_data, right_data, left_index, right_index)
    ELSE NotYetImplemented("inner", engine)

\* merge_left handing the wrong how to merge_logic
MutMergeLeftAsInner(engine, left_data, right_data, left_index, right_index) ==
    IF engine = "PandasMergeEngine"
    THEN merge_logic(engine, "inner", left_data, right_data, left_index, right_index)
    ELSE NotYetImplemented("left", engine)

merge_left(engine, left_data, right_data, left_index, right_index) ==
    IF engine = "PandasMergeEngine"
    THEN merge_logic(engine, "left", left_data, right_data, left_index, right_index)
    ELSE NotYetImplemented("left", engine)

merge_right(engine, left_data, right_data, left_index, right_index) ==
    IF engine = "PandasMergeEngine"
    THEN merge_logic(engine, "right", left_data, right_data, left_index, right_index)
    ELSE NotYetImplemented("right", engine)

merge_full_outer(engine, left_data, right_data, left_index, right_index) ==
    IF engine = "PandasMergeEngine"
    THEN merge_logic(engine, "outer", left_data, right_data, left_index, right_index)
    ELSE NotYetImplemented("full outer", engine)

\* a dispatcher whose RIGHT branch calls merge_left
MutMergeRightToLeft(engine, left_data, right_data, jointype, left_index, right_index) ==
    IF jointype = "inner"
    THEN merge_inner(engine, left_data, right_data, left_index, right_index)
    ELSE IF jointype = "left" \/ jointype = "right"
    THEN merge_left(engine, left_data, right_data, left_index, right_index)
    ELSE IF jointype = "outer"
    THEN merge_full_outer(engine, left_data, right_data, left_index, right_index)
    ELSE NotYetImplemented(jointype, engine)

\* BaseMergeEngine.merge, called on an engine of class engine
merge(engine, left_data, right_data, jointype, left_index, right_index) ==
    IF jointype = "inner"
    THEN merge_inner(engine, left_data, right_data, left_index, right_index)
    ELSE IF jointype = "left"
    THEN merge_left(engine, left_data, right_data, left_index, right_index)
    ELSE IF jointype = "right"
    THEN merge_right(engine, left_data, right_data, left_index, right_index)
    ELSE IF jointype = "outer"
    THEN merge_full_outer(engine, left_data, right_data, left_index, right_index)
    ELSE NotYetImplemented(jointype, engine)

\* merge_append that drops rows already present
MutAppendDeduplicates(left_data, right_data, left_index, right_index) ==
    IF ~IsTable(left_data) \/ ~IsTable(right_data) THEN Raise("TypeError")
    ELSE IF left_data.cols # right_data.cols \/ left_data.ptype # right_data.ptype
    THEN Raise("ArrowInvalid")
    ELSE [left_data EXCEPT !.rows =
             @ \o SelectSeq(right_data.rows, LAMBDA r : r \notin SeqToSet(left_data.rows))]

\* merge_append of the columnar backend's engine: the concatenation of two
\* tables of one schema
merge_append(left_data, right_data, left_index, right_index) ==
    IF ~IsTable(left_data) \/ ~IsTable(right_data) THEN Raise("TypeError")
    ELSE IF left_data.cols # right_data.cols \/ left_data.ptype # right_data.ptype
    THEN Raise("ArrowInvalid")
    ELSE [left_data EXCEPT !.rows = @ \o right_data.rows]

\* the tables the feature groups of the run produce
TableA == Table("pd", {"id", "A"}, << [id |-> 1, A |-> 10], [id |-> 2, A |-> 20] >>)
TableB == Table("pd", {"id", "B"}, << [id |-> 1, B |-> 100], [id |-> 3, B |-> 300] >>)

----------------------------------------------------------------------------
(* Backends *)

\* the abstract base and the dataframe backend that owns PandasMergeEngine
Classes == {"ComputeFrameWork", "PandasDataframe"}

\* ComputeFrameWork.expected_data_framework
expected_data_framework(cls) ==
    IF cls = "PandasDataframe" THEN "pd"
    ELSE IF cls = "PyarrowTable" THEN "pa"
    ELSE IF cls \in {"CustomFramework", "ReadFilterFramework"} THEN "custom"
    ELSE "none"

\* conversion between a backend's frame and the exchange's columnar table
ToPtype(data, ptype) == [data EXCEPT !.ptype = ptype]

\* ComputeFrameWork.get_framework_transform_functions: the target type of the
\* conversion function it returns, "nofunc" when it returns (None, {})
get_framework_transform_functions(cls, from_other, other) ==
    IF cls = "PandasDataframe" /\ other = "pa"
    THEN (IF from_other THEN "pd" ELSE "pa")
    ELSE "nofunc"

\* ComputeFrameWork.merge_engine
merge_engine(cls) == IF cls = "PandasDataframe" THEN "PandasMergeEngine" ELSE "NotImplementedError"

\* convert_flyserver_data_back handing the exchange's table on when no
\* conversion is registered
MutConvertBackPassesThrough(cls, data) ==
    IF ~(IsTable(data) /\ data.ptype = "pa") THEN data
    ELSE IF expected_data_framework(cls) = "none" THEN Raise("TypeError")
    ELSE IF expected_data_framework(cls) = "pa" THEN data
    ELSE LET func == get_framework_transform_functions(cls, TRUE, "pa")
         IN IF func # "nofunc" THEN ToPtype(data, func) ELSE data

\* ComputeFrameWork.convert_flyserver_data_back
convert_flyserver_data_back(cls, data) ==
    IF ~(IsTable(data) /\ data.ptype = "pa") THEN data
    ELSE IF expected_data_framework(cls) = "none" THEN Raise("TypeError")
    ELSE IF expected_data_framework(cls) = "pa" THEN data
    ELSE LET func == get_framework_transform_functions(cls, TRUE, "pa")
         IN IF func # "nofunc" THEN ToPtype(data, func)
            ELSE Raise("Conversion is not supported")

----------------------------------------------------------------------------
(* FlightServer: the table exchange, one location per run *)

FlightServer_upload_table(fl, table, object_id) ==
    [k \in DOMAIN fl \cup {object_id} |-> IF k = object_id THEN table ELSE fl[k]]

FlightServer_download_table(fl, object_id) ==
    IF object_id \in DOMAIN fl THEN fl[object_id] ELSE Raise("no such table")

FlightServer_drop_tables(fl, table_keys) ==
    [k \in DOMAIN fl \ table_keys |-> fl[k]]

\* CfwManager.get_uuid_flyway_datasets: truthy iff the uuid is registered
get_uuid_flyway_datasets(reg, uuid) == uuid \in reg

----------------------------------------------------------------------------
(* ComputeFrameWork *)

\* a slot no instance has been constructed in
NoCfw ==
    [made |-> FALSE, cls |-> "ComputeFrameWork", mode |-> "SYNC", uuid |-> DefaultUuid,
     explicit_uuid |-> FALSE, children_if_root |-> {},
     already_calculated_children_tracker |-> {}, data |-> None,
     object_ids |-> <<>>, column_names |-> {}]

\* ComputeFrameWork.__init__ ; uuid is None when the caller passes none
ComputeFrameWork_init(cls, mode, children_if_root, uuid) ==
    [made |-> TRUE, cls |-> cls, mode |-> mode,
     uuid |-> IF uuid = None THEN DefaultUuid ELSE uuid.val,
     explicit_uuid |-> uuid # None,
     children_if_root |-> children_if_root,
     already_calculated_children_tracker |-> {},
     data |-> None, object_ids |-> <<>>, column_names |-> {}]

\* upload_table drawing a new key for every upload after the first
MutUploadNewKey(c, fl, object_id, fresh) ==
    LET oid == Str(IF object_id = None \/ Len(c.object_ids) > 0 THEN fresh ELSE object_id.val)
        func == get_framework_transform_functions(c.cls, FALSE, "pa")
        d == IF func # "nofunc" /\ IsTable(c.data) THEN ToPtype(c.data, func) ELSE c.data
    IN [c |-> [c EXCEPT !.data = d, !.object_ids = Append(@, oid)],
        flight |-> FlightServer_upload_table(fl, d, oid),
        ret |-> oid]

\* upload_table that does not record the object id
MutUploadForgetsObjectId(c, fl, object_id, fresh) ==
    LET oid == Str(IF object_id = None THEN fresh ELSE object_id.val)
        func == get_framework_transform_functions(c.cls, FALSE, "pa")
        d == IF func # "nofunc" /\ IsTable(c.data) THEN ToPtype(c.data, func) ELSE c.data
    IN [c |-> [c EXCEPT !.data = d],
        flight |-> FlightServer_upload_table(fl, d, oid),
        ret |-> oid]

\* ComputeFrameWork.upload_table ; fresh is the uuid4() drawn when object_id is None
upload_table(c, fl, object_id, fresh) ==
    LET oid == Str(IF object_id = None THEN fresh ELSE object_id.val)
        func == get_framework_transform_functions(c.cls, FALSE, "pa")
        d == IF func # "nofunc" /\ IsTable(c.data) THEN ToPtype(c.data, func) ELSE c.data
    IN [c |-> [c EXCEPT !.data = d, !.object_ids = Append(@, oid)],
        flight |-> FlightServer_upload_table(fl, d, oid),
        ret |-> oid]

\* upload_finished_data losing the handle the upload returns
MutUploadReturnsNone(c, fl, fresh) ==
    [upload_table(c, fl, Str(c.uuid), fresh) EXCEPT !.ret = None]

\* ComputeFrameWork.upload_finished_data
upload_finished_data(c, fl, fresh) == upload_table(c, fl, Str(c.uuid), fresh)

MutDropKeepsData(c, fl, loc) ==
    [c |-> c,
     flight |-> IF IsStr(c.data) /\ Truthy(loc)
                THEN FlightServer_drop_tables(fl, {c.data}) ELSE fl,
     drops |-> IF IsStr(c.data) /\ Truthy(loc) THEN 1 ELSE 0]

\* ComputeFrameWork.drop_last_data (with drop_data) ; drops counts drop_tables calls
drop_last_data(c, fl, loc) ==
    [c |-> [c EXCEPT !.data = None],
     flight |-> IF IsStr(c.data) /\ Truthy(loc)
                THEN FlightServer_drop_tables(fl, {c.data}) ELSE fl,
     drops |-> IF IsStr(c.data) /\ Truthy(loc) THEN 1 ELSE 0]

MutAddReturnsPending(c, fl, children, loc) ==
    LET c1 == [c EXCEPT !.already_calculated_children_tracker = @ \cup children]
    IN IF c1.children_if_root \subseteq c1.already_calculated_children_tracker
       THEN LET d == drop_last_data(c1, fl, loc)
            IN [c |-> d.c, flight |-> d.flight, drops |-> d.drops, ret |-> Bool(TRUE)]
       ELSE [c |-> c1, flight |-> fl, drops |-> 0,
             ret |-> IF Len(c1.object_ids) > 0
                     THEN FSet(c1.children_if_root \ c1.already_calculated_children_tracker)
                     ELSE Bool(FALSE)]

MutAddDropsEarly(c, fl, children, loc) ==
    LET c1 == [c EXCEPT !.already_calculated_children_tracker = @ \cup children]
    IN IF c1.children_if_root \cap c1.already_calculated_children_tracker # {}
          \/ c1.children_if_root = {}
       THEN LET d == drop_last_data(c1, fl, loc)
            IN [c |-> d.c, flight |-> d.flight, drops |-> d.drops, ret |-> Bool(TRUE)]
       ELSE [c |-> c1, flight |-> fl, drops |-> 0,
             ret |-> IF Len(c1.object_ids) > 0 THEN FSet(c1.children_if_root)
                     ELSE Bool(FALSE)]

\* completion asked only of instances that declared children
MutAddNeedsChildren(c, fl, children, loc) ==
    LET c1 == [c EXCEPT !.already_calculated_children_tracker = @ \cup children]
    IN IF c1.children_if_root # {}
          /\ c1.children_if_root \subseteq c1.already_calculated_children_tracker
       THEN LET d == drop_last_data(c1, fl, loc)
            IN [c |-> d.c, flight |-> d.flight, drops |-> d.drops, ret |-> Bool(TRUE)]
       ELSE [c |-> c1, flight |-> fl, drops |-> 0,
             ret |-> IF Len(c1.object_ids) > 0 THEN FSet(c1.children_if_root)
                     ELSE Bool(FALSE)]

\* the tracker assigned from the argument instead of updated with it
MutAddReplacesTracker(c, fl, children, loc) ==
    LET c1 == [c EXCEPT !.already_calculated_children_tracker = children]
    IN IF c1.children_if_root \subseteq c1.already_calculated_children_tracker
       THEN LET d == drop_last_data(c1, fl, loc)
            IN [c |-> d.c, flight |-> d.flight, drops |-> d.drops, ret |-> Bool(TRUE)]
       ELSE [c |-> c1, flight |-> fl, drops |-> 0,
             ret |-> IF Len(c1.object_ids) > 0 THEN FSet(c1.children_if_root)
                     ELSE Bool(FALSE)]

\* ComputeFrameWork.add_already_calculated_children_and_drop_if_possible
add_already_calculated_children_and_drop_if_possible(c, fl, children, loc) ==
    LET c1 == [c EXCEPT !.already_calculated_children_tracker = @ \cup children]
    IN IF c1.children_if_root \subseteq c1.already_calculated_children_tracker
       THEN LET d == drop_last_data(c1, fl, loc)
            IN [c |-> d.c, flight |-> d.flight, drops |-> d.drops, ret |-> Bool(TRUE)]
       ELSE [c |-> c1, flight |-> fl, drops |-> 0,
             ret |-> IF Len(c1.object_ids) > 0 THEN FSet(c1.children_if_root)
                     ELSE Bool(FALSE)]

\* ComputeFrameWork.get_class_name
get_class_name(c) == c.cls

\* hash() of the tuple (class name, frozenset of children): equal tuples hash
\* equally, different tuples may collide
tuple_hash(name, children) ==
    (IF name = "PandasDataframe" THEN 1 ELSE 0) + 2 * Cardinality(children)

\* equality that also compares the uuids
MutEqComparesUuid(c, other) ==
    /\ get_class_name(c) = get_class_name(other)
    /\ c.children_if_root = other.children_if_root
    /\ c.uuid = other.uuid

\* ComputeFrameWork.__eq__ (other is a framework instance)
ComputeFrameWork_eq(c, other) ==
    /\ get_class_name(c) = get_class_name(other)
    /\ c.children_if_root = other.children_if_root

\* a hash that also covers the satisfied children
MutHashCoversTracker(c) ==
    tuple_hash(get_class_name(c), c.children_if_root \cup c.already_calculated_children_tracker)

\* ComputeFrameWork.__hash__
ComputeFrameWork_hash(c) == tuple_hash(get_class_name(c), c.children_if_root)

\* x in s, for a set (or the keys of a dict) whose entries are the instances in
\* the slots of bucket
set_contains(all, bucket, i) ==
    \E j \in bucket :
        /\ ComputeFrameWork_hash(all[j]) = ComputeFrameWork_hash(all[i])
        /\ (j = i \/ ComputeFrameWork_eq(all[j], all[i]))

\* s.add(x)
set_add(all, bucket, i) == IF set_contains(all, bucket, i) THEN bucket ELSE bucket \cup {i}

\* ComputeFrameWork.filter_engine: what the backend's filter engine declares.
\* The dataframe backend's engine filters final data, a backend may bring an
\* engine that filters while reading (final_filters is False), and a backend
\* that does not override the method has no engine.
filter_engine(cls) ==
    IF cls = "PandasDataframe" THEN "final_filters"
    ELSE IF cls = "ReadFilterFramework" THEN "no_final_filters"
    ELSE "NotImplementedError"

\* BaseFilterEngine.apply_filters: keep the rows whose id is within the filter
apply_filters(data, filters) ==
    IF filters = {} \/ ~IsTable(data) THEN data
    ELSE [data EXCEPT !.rows = SelectSeq(@, LAMBDA r : r["id"] \in filters)]

\* transform_refactored without the early return for data of the expected type,
\* looking up the conversion in the outgoing direction
MutTransformConvertsAnyway(cls, data) ==
    IF expected_data_framework(cls) = "none" THEN Raise("TypeError")
    ELSE LET func == IF IsTable(data)
                     THEN get_framework_transform_functions(cls, FALSE, "pa")
                     ELSE "nofunc"
         IN IF func # "nofunc" THEN ToPtype(data, func) ELSE None

\* ComputeFrameWork.transform_refactored
transform_refactored(cls, data) ==
    IF expected_data_framework(cls) = "none" THEN Raise("TypeError")
    ELSE IF IsTable(data) /\ data.ptype = expected_data_framework(cls) THEN data
    ELSE LET func == IF IsTable(data)
                     THEN get_framework_transform_functions(cls, TRUE, data.ptype)
                     ELSE "nofunc"
         IN IF func # "nofunc" THEN ToPtype(data, func) ELSE None

\* transform without the fallback to the data it was given
MutTransformReturnsNone(cls, data) == transform_refactored(cls, data)

\* ComputeFrameWork.transform (with the default, empty transform map)
transform(cls, data) ==
    LET transformed_data == transform_refactored(cls, data)
    IN IF transformed_data # None THEN transformed_data ELSE data

\* a plain Python list, as in transform(data=["a"]), and a mapping of column
\* names to value sequences
PyList == [kind |-> "list", val |-> <<97>>]
PyDict(cols, rows) == [kind |-> "dict", cols |-> cols, rows |-> rows]

\* the physical type of a value
TypeOf(data) == IF IsTable(data) THEN data.ptype ELSE data.kind

\* the columnar backend's override of transform: data of the expected type as
\* it is, a mapping through the table constructor, anything else an error
PyarrowTable_transform(data) ==
    IF TypeOf(data) = "pa" THEN data
    ELSE IF TypeOf(data) = "dict" THEN Table("pa", data.cols, data.rows)
    ELSE Raise("Data type is not supported by PyarrowTable")

\* self.transform(...) on an instance of class cls
dispatch_transform(cls, data) ==
    IF cls = "PyarrowTable" THEN PyarrowTable_transform(data) ELSE transform(cls, data)

\* run_final_filter that filters with every engine the backend implements
MutFinalFilterIgnoresDeclaration(cls, data, filters) ==
    IF filter_engine(cls) = "NotImplementedError" THEN data
    ELSE apply_filters(data, filters)

\* ComputeFrameWork.run_final_filter, on the feature set set_filter_engine has
\* bound the backend's filter_engine to
run_final_filter(cls, data, filters) ==
    IF filter_engine(cls) = "NotImplementedError" THEN data
    ELSE IF filter_engine(cls) = "no_final_filters" THEN data
    ELSE apply_filters(data, filters)

\* results a feature group's validation may return
ValidationResults == {"None", "True", "False", "missing column"}
ValidationPasses(result) == result \in {"None", "True"}

\* validation that lets every truthy result pass
MutValidateTruthy(c, result) ==
    IF c.data = None \/ result # "False" THEN None ELSE Raise(result)

\* ComputeFrameWork.run_validate_input_features / run_validate_output_features
run_validate_features(c, result) ==
    IF c.data = None \/ ValidationPasses(result) THEN None ELSE Raise(result)

\* run_calculation uploading right after the transform, before output validation
MutUploadBeforeValidate(c, fl, loc, inp, fresh) ==
    LET c1 == IF inp.data # None THEN [c EXCEPT !.data = inp.data] ELSE c
        vin == run_validate_features(c1, inp.vin)
        transformed == dispatch_transform(c.cls, run_final_filter(c.cls, inp.result, inp.filters))
        c2 == [c1 EXCEPT !.data = transformed]
        vout == run_validate_features(c2, inp.vout)
        up == upload_finished_data(c2, fl, fresh)
        uploads == Truthy(loc)
                     /\ ~(Cardinality(c2.children_if_root)
                            > Cardinality(c2.already_calculated_children_tracker)
                              + Cardinality(inp.features))
    IN IF IsRaise(vin)
       THEN [c |-> c1, flight |-> fl, ret |-> vin, uploaded |-> FALSE,
             stages |-> <<"validate_input">>]
       ELSE IF IsRaise(transformed)
       THEN [c |-> c1, flight |-> fl, ret |-> transformed, uploaded |-> FALSE,
             stages |-> <<"validate_input", "calculate", "filter", "transform">>]
       ELSE IF uploads
       THEN [c |-> [up.c EXCEPT !.data = up.ret], flight |-> up.flight,
             ret |-> IF IsRaise(vout) THEN vout ELSE up.ret,
             uploaded |-> ~IsRaise(vout),
             stages |-> <<"validate_input", "calculate", "filter", "transform",
                          "upload", "validate_output">>]
       ELSE [c |-> c2, flight |-> fl,
             ret |-> IF IsRaise(vout) THEN vout
                     ELSE IF Truthy(loc) THEN c2.data ELSE None,
             uploaded |-> FALSE,
             stages |-> <<"validate_input", "calculate", "filter", "transform",
                          "validate_output">>]

\* ComputeFrameWork.run_calculation ; inp holds the call's arguments and what the
\* feature group answers: features, data, vin, vout, filters, result
run_calculation(c, fl, loc, inp, fresh) ==
    LET c1 == IF inp.data # None THEN [c EXCEPT !.data = inp.data] ELSE c
        vin == run_validate_features(c1, inp.vin)
        calculated == inp.result
        filtered == run_final_filter(c.cls, calculated, inp.filters)
        transformed == dispatch_transform(c.cls, filtered)
        c2 == [c1 EXCEPT !.data = transformed]
        vout == run_validate_features(c2, inp.vout)
        up == upload_finished_data(c2, fl, fresh)
    IN IF IsRaise(vin)
       THEN [c |-> c1, flight |-> fl, ret |-> vin, uploaded |-> FALSE,
             stages |-> <<"validate_input">>]
       ELSE IF IsRaise(transformed)
       THEN [c |-> c1, flight |-> fl, ret |-> transformed, uploaded |-> FALSE,
             stages |-> <<"validate_input", "calculate", "filter", "transform">>]
       ELSE IF IsRaise(vout)
       THEN [c |-> c2, flight |-> fl, ret |-> vout, uploaded |-> FALSE,
             stages |-> <<"validate_input", "calculate", "filter", "transform",
                          "validate_output">>]
       ELSE IF ~Truthy(loc)
       THEN [c |-> c2, flight |-> fl, ret |-> None, uploaded |-> FALSE,
             stages |-> <<"validate_input", "calculate", "filter", "transform",
                          "validate_output">>]
       ELSE IF Cardinality(c2.children_if_root)
                 > Cardinality(c2.already_calculated_children_tracker)
                   + Cardinality(inp.features)
       THEN [c |-> c2, flight |-> fl, ret |-> c2.data, uploaded |-> FALSE,
             stages |-> <<"validate_input", "calculate", "filter", "transform",
                          "validate_output">>]
       ELSE [c |-> [up.c EXCEPT !.data = up.ret], flight |-> up.flight, ret |-> up.ret,
             uploaded |-> TRUE,
             stages |-> <<"validate_input", "calculate", "filter", "transform",
                          "validate_output", "upload">>]

----------------------------------------------------------------------------
(* JoinStep *)

Uuid(u) == [kind |-> "uuid", val |-> u]
Obj(i, c) == [kind |-> "cfw", inst |-> i, obj |-> c]

Link(jointype, left_index, right_index) ==
    [jointype |-> jointype, left_index |-> left_index, right_index |-> right_index]

NoStep ==
    [made |-> FALSE, link |-> Link("inner", SimpleIdx, SimpleIdx),
     left_framework |-> "ComputeFrameWork", right_framework |-> "ComputeFrameWork",
     required_uuids |-> {}, uuid |-> DefaultUuid, step_is_done |-> FALSE,
     location |-> "unset"]

MutStepStartsDone(link, left_framework, right_framework, required_uuids, fresh) ==
    [made |-> TRUE, link |-> link, left_framework |-> left_framework,
     right_framework |-> right_framework, required_uuids |-> required_uuids,
     uuid |-> fresh, step_is_done |-> TRUE, location |-> "unset"]

\* JoinStep.__init__ ; fresh is the uuid4() drawn in the body
JoinStep_init(link, left_framework, right_framework, required_uuids, fresh) ==
    [made |-> TRUE, link |-> link, left_framework |-> left_framework,
     right_framework |-> right_framework, required_uuids |-> required_uuids,
     uuid |-> fresh, step_is_done |-> FALSE, location |-> "unset"]

\* get_data handing on the exchange's table as it was downloaded
MutGetDataSkipsConversion(loc, from_cfw, c, fl) ==
    IF Truthy(loc) /\ from_cfw.kind = "uuid"
    THEN FlightServer_download_table(fl, Str(from_cfw.val))
    ELSE IF from_cfw.kind = "uuid"
    THEN Raise("From_cfw is a UUID, but we are not using flightserver.")
    ELSE from_cfw.obj.data

\* JoinStep.get_data
get_data(loc, from_cfw, c, fl) ==
    IF Truthy(loc) /\ from_cfw.kind = "uuid"
    THEN LET data == FlightServer_download_table(fl, Str(from_cfw.val))
         IN IF IsRaise(data) THEN data ELSE convert_flyserver_data_back(c.cls, data)
    ELSE IF from_cfw.kind = "uuid"
    THEN Raise("From_cfw is a UUID, but we are not using flightserver.")
    ELSE from_cfw.obj.data

MutExecuteSwapsSides(st, reg, c, from_cfw, fl, loc, fresh) ==
    LET st1 == [st EXCEPT !.location = loc]
        from_cfw_data == IF from_cfw = None THEN None ELSE get_data(loc, from_cfw, c, fl)
        merged == merge(merge_engine(c.cls), from_cfw_data, c.data, st.link.jointype,
                        st.link.left_index, st.link.right_index)
        c1 == [c EXCEPT !.data = merged]
    IN IF from_cfw = None \/ IsRaise(from_cfw_data) \/ IsRaise(merged)
          \/ merge_engine(c.cls) = "NotImplementedError"
       THEN [step |-> st1, c |-> c, flight |-> fl, ret |-> Raise("error"),
             merged |-> FALSE, uploaded |-> FALSE, from_data |-> from_cfw_data]
       ELSE [step |-> st1, c |-> c1, flight |-> fl, ret |-> None,
             merged |-> TRUE, uploaded |-> FALSE, from_data |-> from_cfw_data]

\* execute clearing the destination's data before the merge has succeeded
MutExecuteClearsOnError(st, reg, c, from_cfw, fl, loc, fresh) ==
    LET st1 == [st EXCEPT !.location = loc]
        from_cfw_data == IF from_cfw = None THEN None ELSE get_data(loc, from_cfw, c, fl)
        merged == merge(merge_engine(c.cls), c.data, from_cfw_data, st.link.jointype,
                        st.link.left_index, st.link.right_index)
        c1 == [c EXCEPT !.data = merged]
        up == upload_finished_data(c1, fl, fresh)
        Failed(e) == [step |-> st1, c |-> c, flight |-> fl, ret |-> e,
                      merged |-> FALSE, uploaded |-> FALSE, from_data |-> from_cfw_data]
    IN IF from_cfw = None THEN Failed(Raise("From_cfw should not be none for join step."))
       ELSE IF IsRaise(from_cfw_data) THEN Failed(from_cfw_data)
       ELSE IF merge_engine(c.cls) = "NotImplementedError"
       THEN Failed(Raise("Merge functionality is for this compute framework not implemented"))
       ELSE IF IsRaise(merged) THEN [Failed(merged) EXCEPT !.c = [c EXCEPT !.data = None]]
       ELSE IF Truthy(loc) /\ get_uuid_flyway_datasets(reg, c.uuid)
       THEN [step |-> st1, c |-> up.c, flight |-> up.flight, ret |-> None,
             merged |-> TRUE, uploaded |-> TRUE, from_data |-> from_cfw_data]
       ELSE [step |-> st1, c |-> c1, flight |-> fl, ret |-> None,
             merged |-> TRUE, uploaded |-> FALSE, from_data |-> from_cfw_data]

\* execute without the check of the from-side
MutExecuteNoFromCheck(st, reg, c, from_cfw, fl, loc, fresh) ==
    LET st1 == [st EXCEPT !.location = loc]
        from_cfw_data == IF from_cfw = None THEN None ELSE get_data(loc, from_cfw, c, fl)
        merged == merge(merge_engine(c.cls), c.data, from_cfw_data, st.link.jointype,
                        st.link.left_index, st.link.right_index)
        c1 == [c EXCEPT !.data = merged]
        up == upload_finished_data(c1, fl, fresh)
        Failed(e) == [step |-> st1, c |-> c, flight |-> fl, ret |-> e,
                      merged |-> FALSE, uploaded |-> FALSE, from_data |-> from_cfw_data]
    IN IF IsRaise(from_cfw_data) THEN Failed(from_cfw_data)
       ELSE IF merge_engine(c.cls) = "NotImplementedError"
       THEN Failed(Raise("Merge functionality is for this compute framework not implemented"))
       ELSE IF IsRaise(merged) THEN Failed(merged)
       ELSE IF Truthy(loc) /\ get_uuid_flyway_datasets(reg, c.uuid)
       THEN [step |-> st1, c |-> up.c, flight |-> up.flight, ret |-> None,
             merged |-> TRUE, uploaded |-> TRUE, from_data |-> from_cfw_data]
       ELSE [step |-> st1, c |-> c1, flight |-> fl, ret |-> None,
             merged |-> TRUE, uploaded |-> FALSE, from_data |-> from_cfw_data]

\* JoinStep.execute
JoinStep_execute(st, reg, c, from_cfw, fl, loc, fresh) ==
    LET st1 == [st EXCEPT !.location = loc]
        from_cfw_data == IF from_cfw = None THEN None ELSE get_data(loc, from_cfw, c, fl)
        merged == merge(merge_engine(c.cls), c.data, from_cfw_data, st.link.jointype,
                        st.link.left_index, st.link.right_index)
        c1 == [c EXCEPT !.data = merged]
        up == upload_finished_data(c1, fl, fresh)
        Failed(e) == [step |-> st1, c |-> c, flight |-> fl, ret |-> e,
                      merged |-> FALSE, uploaded |-> FALSE, from_data |-> from_cfw_data]
    IN IF from_cfw = None THEN Failed(Raise("From_cfw should not be none for join step."))
       ELSE IF IsRaise(from_cfw_data) THEN Failed(from_cfw_data)
       ELSE IF merge_engine(c.cls) = "NotImplementedError"
       THEN Failed(Raise("Merge functionality is for this compute framework not implemented"))
       ELSE IF IsRaise(merged) THEN Failed(merged)
       ELSE IF Truthy(loc) /\ get_uuid_flyway_datasets(reg, c.uuid)
       THEN [step |-> st1, c |-> up.c, flight |-> up.flight, ret |-> None,
             merged |-> TRUE, uploaded |-> TRUE, from_data |-> from_cfw_data]
       ELSE [step |-> st1, c |-> c1, flight |-> fl, ret |-> None,
             merged |-> TRUE, uploaded |-> FALSE, from_data |-> from_cfw_data]

MutMatchedIgnoresRequired(st, other_framework, uuid) ==
    IF other_framework = st.left_framework THEN Uuid(st.uuid)
    ELSE IF other_framework = st.right_framework THEN Uuid(st.uuid)
    ELSE None

\* JoinStep.matched
matched(st, other_framework, uuid) ==
    IF uuid \notin st.required_uuids THEN None
    ELSE IF other_framework = st.left_framework THEN Uuid(st.uuid)
    ELSE IF other_framework = st.right_framework THEN Uuid(st.uuid)
    ELSE None

\* the scheduler runs a join step only while it is pending, and marks it executed
step_is_pending(st) == st.made /\ ~st.step_is_done
mark_step_done(st) == [st EXCEPT !.step_is_done = TRUE]

----------------------------------------------------------------------------
(* FeatureSet *)

\* an Options object: the dict of option values; Options.get(key) is
\* data.get(key, None)
Options(data) == [kind |-> "options", data |-> data]
Options_get(options, key) ==
    IF key \in DOMAIN options.data THEN options.data[key] ELSE None

Feature(name, options, uuid) == [name |-> name, options |-> options, uuid |-> Uuid(uuid)]

PySet(s) == [kind |-> "set", val |-> s]

FeatureSet_init ==
    [features |-> {}, options |-> None, any_uuid |-> None, filters |-> None,
     name_of_one_feature |-> None, artifact_to_save |-> None,
     artifact_to_load |-> None, save_artifact |-> None]

\* the representative name is assigned on every add, options and any_uuid
\* only while they are still None
FeatureSet_add(fs, feature) ==
    [fs EXCEPT !.features = @ \cup {feature},
               !.name_of_one_feature = Str(feature.name),
               !.options = IF @ = None THEN feature.options ELSE @,
               !.any_uuid = IF @ = None THEN feature.uuid ELSE @]

FeatureSet_remove(fs, feature) == [fs EXCEPT !.features = @ \ {feature}]

get_options(fs) ==
    IF fs.options = None THEN Raise("No options set") ELSE fs.options

get_name_of_one_feature(fs) ==
    IF fs.name_of_one_feature = None THEN Raise("No feature added yet")
    ELSE fs.name_of_one_feature

get_all_names(fs) == {feature.name : feature \in fs.features}

\* FeatureSet.add_artifact_name; feature_name is the first name the iteration
\* over the set of names finds among the option keys (a set has no fixed order)
add_artifact_name(fs, feature_name) ==
    IF fs.options = None THEN [fs |-> fs, ret |-> Raise("No options set")]
    ELSE IF get_all_names(fs) \cap DOMAIN fs.options.data # {}
         THEN [fs |-> [fs EXCEPT !.artifact_to_load = Str(feature_name)], ret |-> None]
         ELSE LET name == get_name_of_one_feature(fs)
              IN IF IsRaise(name) THEN [fs |-> fs, ret |-> name]
                 ELSE [fs |-> [fs EXCEPT !.artifact_to_save = name], ret |-> None]

\* filters are stored by the first call only; nothing is stored on an error
MutAddFiltersOverwrites(fs, single_filters) ==
    IF single_filters.kind # "set"
    THEN [fs |-> fs, ret |-> Raise("Filters should be a set.")]
    ELSE [fs |-> [fs EXCEPT !.filters = single_filters], ret |-> None]

add_filters(fs, single_filters) ==
    IF fs.filters # None
    THEN [fs |-> fs, ret |-> Raise("Filters already set")]
    ELSE IF single_filters.kind # "set"
         THEN [fs |-> fs, ret |-> Raise("Filters should be a set.")]
         ELSE [fs |-> [fs EXCEPT !.filters = single_filters], ret |-> None]

----------------------------------------------------------------------------
(* BaseArtifact *)

\* BaseArtifact itself, a subclass whose custom loader and saver yield
\* nothing, and a subclass whose loader and saver yield a value of their own
ArtifactClasses == {"BaseArtifact", "EmptyArtifact", "StoredArtifact"}

MutValidateSkipsName(features) ==
    IF features.options = None THEN Raise("No options set") ELSE None

BaseArtifact_validate(features) ==
    IF features.options = None THEN Raise("No options set")
    ELSE IF features.name_of_one_feature = None
         THEN Raise("Feature name missing in feature set.")
         ELSE None

\* the default reads the options under the representative name; reading an
\* attribute of None is an AttributeError
custom_loader(cls, features) ==
    IF cls = "EmptyArtifact" THEN None
    ELSE IF cls = "StoredArtifact" THEN Str("from store")
    ELSE IF features.options = None \/ features.name_of_one_feature = None
         THEN Raise("AttributeError")
         ELSE Options_get(features.options, features.name_of_one_feature.val)

custom_saver(cls, features, artifact) ==
    IF cls = "EmptyArtifact" THEN None
    ELSE IF cls = "StoredArtifact" THEN Str("metadata")
    ELSE artifact

\* the outcome and the methods the call entered
MutLoadReturnsNothing(cls, features) ==
    IF features.artifact_to_load = None THEN [ret |-> None, stages |-> <<>>]
    ELSE LET v == BaseArtifact_validate(features)
         IN IF IsRaise(v) THEN [ret |-> v, stages |-> <<"_validate">>]
            ELSE [ret |-> custom_loader(cls, features),
                  stages |-> <<"_validate", "custom_loader">>]

load(cls, features) ==
    IF features.artifact_to_load = None THEN [ret |-> None, stages |-> <<>>]
    ELSE LET v == BaseArtifact_validate(features)
         IN IF IsRaise(v) THEN [ret |-> v, stages |-> <<"_validate">>]
            ELSE LET loaded_artifact == custom_loader(cls, features)
                 IN [ret |-> IF loaded_artifact = None
                             THEN Raise("No artifact to load although it was requested.")
                             ELSE loaded_artifact,
                     stages |-> <<"_validate", "custom_loader">>]

save(cls, features, artifact) ==
    IF features.artifact_to_save = None THEN [ret |-> None, stages |-> <<>>]
    ELSE LET v == BaseArtifact_validate(features)
         IN IF IsRaise(v) THEN [ret |-> v, stages |-> <<"_validate">>]
            ELSE LET saved == custom_saver(cls, features, artifact)
                 IN [ret |-> IF saved = None
                             THEN Raise("No artifact to save although it was requested.")
                             ELSE saved,
                     stages |-> <<"_validate", "custom_saver">>]

----------------------------------------------------------------------------
(* BaseAggregatedFeatureGroup: the feature name parser *)

\* names are spelled with these pieces; a name is a sequence of them
NameTokens == {"_", "aggr", "sum"}
AggrSeparator == <<"_", "aggr", "_">>

\* the supported aggregation types these pieces can spell
AGGREGATION_TYPES == {<<"sum">>}

\* str.split(sep): the pieces between the occurrences found from left to right
RECURSIVE str_split(_, _)
str_split(s, sep) ==
    LET hits == {k \in 1..(Len(s) - Len(sep) + 1) : SubSeq(s, k, k + Len(sep) - 1) = sep}
    IN IF hits = {} THEN <<s>>
       ELSE LET k == CHOOSE h \in hits : \A g \in hits : h <= g
            IN <<SubSeq(s, 1, k - 1)>> \o str_split(SubSeq(s, k + Len(sep), Len(s)), sep)

InvalidName == Raise("Invalid aggregated feature name format")

MutAggregationTypeAcceptsNoSource(feature_name) ==
    LET parts == str_split(feature_name, AggrSeparator)
    IN IF Len(parts) # 2 \/ parts[1] = <<>> THEN InvalidName
       ELSE Str(parts[1])

get_aggregation_type(feature_name) ==
    LET parts == str_split(feature_name, AggrSeparator)
    IN IF Len(parts) # 2 \/ parts[1] = <<>> THEN InvalidName
       ELSE IF parts[2] = <<>> THEN InvalidName
       ELSE Str(parts[1])

mloda_source_feature(feature_name) ==
    LET parts == str_split(feature_name, AggrSeparator)
    IN IF Len(parts) # 2 \/ parts[2] = <<>> THEN InvalidName
       ELSE IF parts[1] = <<>> THEN InvalidName
       ELSE Str(parts[2])

supports_aggregation_type(aggregation_type) == aggregation_type \in AGGREGATION_TYPES

match_feature_group_criteria(feature_name) ==
    LET agg_type == get_aggregation_type(feature_name)
    IN IF IsRaise(agg_type) THEN Bool(FALSE)
       ELSE Bool(supports_aggregation_type(agg_type.val))

----------------------------------------------------------------------------
(* The run: planning creates instances and join steps, execution runs them *)

EmptyFlight == [k \in {} |-> None]

InstSeq == <<"cfw1", "cfw2">>
StepSeq == <<"js1", "js2">>

\* declared children sets and links the planner chooses from
ChildrenChoices == {{}, {"c1"}, {"c1", "c2"}}
RunLinks == {Link("inner", SimpleIdx, SimpleIdx), Link("left", SimpleIdx, SimpleIdx),
             Link("inner", SimpleIdx, CompositeIdx)}

\* what the feature group bound to an instance calculates
BaseTable(i) == IF i = "cfw1" THEN TableA ELSE TableB

FeatureSets == SUBSET ChildIds \ {{}}

RunInputs(i) ==
    [features : FeatureSets, data : {None, BaseTable(i)}, vin : {"None", "False"},
     vout : {"True", "False", "missing column"}, filters : {{}, {1}},
     result : {BaseTable(i)}]

\* last: the operation, its target, its argument, the kind of data the target
\* held before it, and the outcome; for run_calculation also the call's inputs
\* and the pipeline stages it entered, for execute the from-side data it got
NoOp == [op |-> "none", inst |-> "none", step |-> "none", arg |-> {}, pre |-> "none",
         ret |-> None, uploaded |-> FALSE, merged |-> FALSE, drops |-> 0,
         inp |-> None, stages |-> <<>>]

Op(op, inst, step, arg, pre, ret, uploaded, merged, drops) ==
    [op |-> op, inst |-> inst, step |-> step, arg |-> arg, pre |-> pre, ret |-> ret,
     uploaded |-> uploaded, merged |-> merged, drops |-> drops,
     inp |-> None, stages |-> <<>>]

NoHist == [writers |-> {}, drops |-> [i \in Inst |-> 0], passed |-> [i \in Inst |-> {}],
           merges |-> [s \in StepIds |-> 0], added |-> {}, bucket |-> {},
           first |-> None]

\* the run ends at the first failing step
PhaseAfter(ret) == IF IsRaise(ret) THEN "aborted" ELSE "run"

\* the mode a run with this location gives its instances
ModeOf(loc) == IF Truthy(loc) THEN "MULTIPROCESSING" ELSE "SYNC"

\* what every specification starts with: an empty exchange and no history
Blank ==
    /\ flight = EmptyFlight
    /\ registry = {}
    /\ last = NoOp
    /\ hist = NoHist
    /\ feature_set = None
    /\ sched = None

Construct(i, cls, children, explicit) ==
    /\ phase = "plan"
    /\ ~cfw[i].made
    /\ \A k \in DOMAIN InstSeq : InstSeq[k] = i => \A m \in 1..(k - 1) : cfw[InstSeq[m]].made
    /\ \A s \in StepIds : ~steps[s].made
    /\ cfw' = [cfw EXCEPT ![i] =
                 ComputeFrameWork_init(cls, ModeOf(location), children, IF explicit THEN Uuid(next_uuid) ELSE None)]
    /\ next_uuid' = IF explicit THEN next_uuid + 1 ELSE next_uuid
    /\ last' = Op("construct", i, "none", {}, "none", None, FALSE, FALSE, 0)
    /\ UNCHANGED <<feature_set, sched>>
    /\ UNCHANGED <<phase, location, steps, flight, registry, hist>>

NewJoinStep(s, link, left_framework, right_framework, required_uuids) ==
    /\ phase = "plan"
    /\ ~steps[s].made
    /\ \A k \in DOMAIN StepSeq : StepSeq[k] = s => \A m \in 1..(k - 1) : steps[StepSeq[m]].made
    /\ steps' = [steps EXCEPT ![s] =
                   JoinStep_init(link, left_framework, right_framework,
                                 required_uuids, next_uuid)]
    /\ next_uuid' = next_uuid + 1
    /\ last' = Op("new_step", "none", s, {}, "none", None, FALSE, FALSE, 0)
    /\ UNCHANGED <<feature_set, sched>>
    /\ UNCHANGED <<phase, location, cfw, flight, registry, hist>>

StartRun ==
    /\ phase = "plan"
    /\ \E i \in Inst : cfw[i].made
    /\ phase' = "run"
    /\ last' = NoOp
    /\ UNCHANGED <<feature_set, sched>>
    /\ UNCHANGED <<location, cfw, steps, flight, registry, next_uuid, hist>>

RunCalculation(i, inp) ==
    /\ phase = "run"
    /\ cfw[i].made
    /\ Len(cfw[i].object_ids) < MaxUploads
    /\ LET r == run_calculation(cfw[i], flight, location, inp, next_uuid)
       IN /\ cfw' = [cfw EXCEPT ![i] = r.c]
          /\ flight' = r.flight
          /\ registry' = IF r.uploaded THEN registry \cup {cfw[i].uuid} ELSE registry
          /\ hist' = IF r.uploaded
                     THEN [hist EXCEPT !.writers = @ \cup {<<r.ret, i>>}]
                     ELSE hist
          /\ last' = [Op("run_calculation", i, "none", inp.features, cfw[i].data.kind,
                           r.ret, r.uploaded, FALSE, 0)
                          EXCEPT !.inp = inp, !.stages = r.stages]
          /\ phase' = PhaseAfter(r.ret)
    /\ UNCHANGED <<feature_set, sched>>
    /\ UNCHANGED <<location, steps, next_uuid>>

AddChildren(i, children) ==
    /\ phase = "run"
    /\ cfw[i].made
    /\ LET r == add_already_calculated_children_and_drop_if_possible(
                    cfw[i], flight, children, location)
       IN /\ cfw' = [cfw EXCEPT ![i] = r.c]
          /\ flight' = r.flight
          /\ hist' = [hist EXCEPT !.drops[i] = @ + r.drops, !.passed[i] = @ \cup children]
          /\ last' = Op("add_children", i, "none", children, cfw[i].data.kind, r.ret, FALSE, FALSE, r.drops)
    /\ UNCHANGED <<feature_set, sched>>
    /\ UNCHANGED <<phase, location, steps, registry, next_uuid>>

FromChoices(i) ==
    {None} \cup {Obj(j, cfw[j]) : j \in {k \in Inst \ {i} : cfw[k].made}}
           \cup {Uuid(cfw[j].uuid) : j \in {k \in Inst \ {i} : cfw[k].made}}

ExecuteJoin(s, i, from_cfw) ==
    /\ phase = "run"
    /\ step_is_pending(steps[s])
    /\ cfw[i].made
    /\ Len(cfw[i].object_ids) < MaxUploads
    /\ LET r == JoinStep_execute(steps[s], registry, cfw[i], from_cfw, flight,
                                 location, next_uuid)
       IN /\ cfw' = [cfw EXCEPT ![i] = r.c]
          /\ flight' = r.flight
          /\ steps' = [steps EXCEPT ![s] =
                         IF IsRaise(r.ret) THEN r.step ELSE mark_step_done(r.step)]
          /\ hist' = [hist EXCEPT
                        !.writers = IF r.uploaded THEN @ \cup {<<Str(cfw[i].uuid), i>>} ELSE @,
                        !.merges[s] = IF r.merged THEN @ + 1 ELSE @]
          /\ last' = [Op("execute", i, s, from_cfw, cfw[i].data.kind, r.ret,
                         r.uploaded, r.merged, 0)
                        EXCEPT !.inp = r.from_data]
          /\ phase' = PhaseAfter(r.ret)
    /\ UNCHANGED <<feature_set, sched>>
    /\ UNCHANGED <<location, registry, next_uuid>>

\* the scheduler puts an instance into a set of instances
AddToSet(i) ==
    /\ phase = "run"
    /\ cfw[i].made
    /\ i \notin hist.added
    /\ hist' = [hist EXCEPT !.added = @ \cup {i}, !.bucket = set_add(cfw, @, i)]
    /\ last' = Op("set_add", i, "none", {}, cfw[i].data.kind,
                  Bool(set_contains(cfw, hist.bucket, i)), FALSE, FALSE, 0)
    /\ UNCHANGED <<feature_set, sched>>
    /\ UNCHANGED <<phase, location, cfw, steps, flight, registry, next_uuid>>

Matched(s, other_framework, uuid) ==
    /\ phase = "run"
    /\ steps[s].made
    /\ last' = Op("matched", other_framework, s, uuid, "none",
                  matched(steps[s], other_framework, uuid), FALSE, FALSE, 0)
    /\ UNCHANGED <<feature_set, sched>>
    /\ UNCHANGED <<phase, location, cfw, steps, flight, registry, next_uuid, hist>>

----------------------------------------------------------------------------
(* Spec: two planned instances with their own uuids, two join steps, and the
   execution phase over them *)

PlannedChildren(i) == IF i = "cfw1" THEN {"c1", "c2"} ELSE {"c1"}
PlannedUuid(i) == IF i = "cfw1" THEN 1 ELSE 2
PlannedStepUuid(s) == IF s = "js1" THEN 3 ELSE 4

JoinInputs(i) ==
    [features : {{"c1"}, {"c1", "c2"}}, data : {None}, vin : {"None"}, vout : {"True"},
     filters : {{}}, result : {BaseTable(i)}]

Init ==
    /\ Blank
    /\ phase = "run"
    /\ location \in {NoLocation, "loc"}
    /\ next_uuid = 5
    /\ cfw = [i \in Inst |->
                ComputeFrameWork_init("PandasDataframe", ModeOf(location),
                                      PlannedChildren(i), Uuid(PlannedUuid(i)))]
    /\ \E lk \in RunLinks :
         steps = [s \in StepIds |->
                    JoinStep_init(IF s = "js1" THEN lk ELSE Link("left", SimpleIdx, SimpleIdx),
                                  "PandasDataframe", "PandasDataframe",
                                  ChildIds, PlannedStepUuid(s))]

Next ==
    \/ \E i \in Inst : \E inp \in JoinInputs(i) : RunCalculation(i, inp)
    \/ \E i \in Inst, children \in ChildrenChoices : AddChildren(i, children)
    \/ \E s \in StepIds, i \in Inst : \E from_cfw \in FromChoices(i) :
           ExecuteJoin(s, i, from_cfw)

Spec == Init /\ [][Next]_vars

----------------------------------------------------------------------------
(* Properties of the run (Spec) *)

\* the data a join step's from-side argument stands for, read in the state
\* before the step
FromDataBefore(from_cfw, cls) ==
    IF from_cfw.kind = "cfw" THEN cfw[from_cfw.inst].data
    ELSE convert_flyserver_data_back(cls, flight[Str(from_cfw.val)])

\* the relational join of two tables that share only the key column k, as the
\* set of its rows
RelationalJoin(L, R, k, how) ==
    LET cols == L.cols \cup R.cols
        Pair(l, r) == [c \in cols |-> IF c \in L.cols THEN l[c] ELSE r[c]]
        LeftPad(l) == [c \in cols |-> IF c \in L.cols THEN l[c] ELSE NULL]
        RightPad(r) == [c \in cols |-> IF c \in R.cols THEN r[c] ELSE NULL]
        ls == SeqToSet(L.rows)
        rs == SeqToSet(R.rows)
        both == {Pair(l, r) : <<l, r>> \in {p \in ls \X rs : p[1][k] = p[2][k]}}
        lonly == {LeftPad(l) : l \in {x \in ls : \A r \in rs : r[k] # x[k]}}
        ronly == {RightPad(r) : r \in {x \in rs : \A l \in ls : l[k] # x[k]}}
    IN both \cup (IF how \in {"left", "outer"} THEN lonly ELSE {})
            \cup (IF how \in {"right", "outer"} THEN ronly ELSE {})

\* C4 (as claimed): with an exchange location, once add_already_calculated_children_and_drop_if_possible
\* has returned True for an instance, no object keyed by the instance's uuid
\* is left in the exchange.
C4_NoObjectAfterDone ==
    (last.op = "add_children" /\ last.ret = Bool(TRUE) /\ Truthy(location))
        => Str(cfw[last.inst].uuid) \notin DOMAIN flight

\* C5: a join step executed against a destination that already has an object
\* under its own uuid uploads the merged result under that same uuid and adds
\* no key, so a download under that uuid gives the merged data.
C5_ReuploadUnderSameUuid ==
    [][ (/\ last'.op = "execute"
         /\ ~IsRaise(last'.ret)
         /\ Truthy(location)
         /\ Str(cfw[last'.inst].uuid) \in DOMAIN flight)
        => LET i == last'.inst
               st == steps[last'.step]
               key == Str(cfw[i].uuid)
               joined == merge(merge_engine(cfw[i].cls), cfw[i].data,
                               FromDataBefore(last'.arg, cfw[i].cls),
                               st.link.jointype, st.link.left_index, st.link.right_index)
               got == convert_flyserver_data_back(
                          cfw[i].cls, FlightServer_download_table(flight', key))
           IN /\ last'.uploaded
              /\ DOMAIN flight' = DOMAIN flight
              /\ got = joined
              /\ cfw'[i].object_ids = Append(cfw[i].object_ids, key)
      ]_vars

C5_Witness ==
    /\ last.op = "execute"
    /\ last.uploaded
    /\ Len(cfw[last.inst].object_ids) >= 2
    /\ hist.drops[last.inst] = 0
    /\ flight[Str(cfw[last.inst].uuid)].cols = {"id", "A", "B"}

C10_ExecuteMerges ==
    [][ (/\ last'.op = "execute"
         /\ ~IsRaise(last'.ret)
         /\ ~Truthy(location))
        => LET i == last'.inst
               j == last'.arg.inst
               st == steps[last'.step]
               L == cfw[i].data
               R == cfw[j].data
           IN /\ last'.arg.kind = "cfw"
              /\ cfw'[i].data = merge(merge_engine(cfw[i].cls), L, R, st.link.jointype,
                                      st.link.left_index, st.link.right_index)
              /\ cfw'[j].data = R
              /\ (L.cols \cap R.cols = {"id"})
                    => /\ SeqToSet(cfw'[i].data.rows)
                            = RelationalJoin(L, R, "id", st.link.jointype)
                       /\ cfw'[i].data.cols = L.cols \cup R.cols
              /\ (L = TableA /\ R = TableB /\ st.link.jointype = "inner")
                    => cfw'[i].data.rows = << [id |-> 1, A |-> 10, B |-> 100] >>
      ]_vars

C10_Witness ==
    /\ last.op = "execute"
    /\ ~IsRaise(last.ret)
    /\ ~Truthy(location)
    /\ steps[last.step].link.jointype = "inner"
    /\ cfw["cfw1"].data = Table("pd", {"id", "A", "B"}, << [id |-> 1, A |-> 10, B |-> 100] >>)
    /\ cfw["cfw2"].data = TableB

----------------------------------------------------------------------------
(* SpecCfw: the life of one framework instance under every input of
   run_calculation and every children argument *)

\* backends whose filter engine filters final data, does not, or is missing
FilterBackends == {"PandasDataframe", "ReadFilterFramework", "CustomFramework"}

InitCfw ==
    /\ Blank
    /\ phase = "run"
    /\ location \in {NoLocation, "loc"}
    /\ next_uuid = 2
    /\ \E children \in ChildrenChoices, cls \in FilterBackends :
         cfw = [i \in Inst |->
                  IF i = "cfw1"
                  THEN ComputeFrameWork_init(cls, ModeOf(location), children, Uuid(1))
                  ELSE NoCfw]
    /\ steps = [s \in StepIds |-> NoStep]

NextCfw ==
    \/ \E i \in Inst : \E inp \in RunInputs(i) : RunCalculation(i, inp)
    \/ \E i \in Inst, children \in SUBSET ChildIds : AddChildren(i, children)

SpecCfw == InitCfw /\ [][NextCfw]_vars

\* C1: a call with the full declared children set clears the data, returns True
\* and issues exactly the one drop of the key the instance holds; a call on an
\* instance whose data is already None changes nothing in the exchange, issues
\* no drop and does not raise.
C1_DropOnce ==
    [][ (/\ last'.op = "add_children"
         /\ cfw[last'.inst].children_if_root \subseteq last'.arg)
        => LET i == last'.inst
               held == IsStr(cfw[i].data) /\ Truthy(location)
           IN /\ cfw'[i].data = None
              /\ last'.ret = Bool(TRUE)
              /\ hist'.drops[i] = hist.drops[i] + (IF held THEN 1 ELSE 0)
              /\ flight' = IF held THEN FlightServer_drop_tables(flight, {cfw[i].data})
                           ELSE flight
              /\ cfw[i].data = None => (flight' = flight /\ hist'.drops = hist.drops)
      ]_vars

\* a second full call right after a call that dropped an exchange object
C1_Witness ==
    /\ last.op = "add_children"
    /\ cfw[last.inst].children_if_root \subseteq last.arg
    /\ cfw[last.inst].children_if_root # {}
    /\ last.pre = "none"
    /\ last.ret = Bool(TRUE)
    /\ hist.drops[last.inst] = 1
    /\ Len(cfw[last.inst].object_ids) = 1

\* C2: over the add_already_calculated_children_and_drop_if_possible calls of an
\* instance, the data is not cleared while a declared child is missing from the
\* children passed so far, and the call that completes them clears the data and
\* returns True.
C2_ClearedExactlyWhenComplete ==
    [][ last'.op = "add_children"
        => LET i == last'.inst
               complete == cfw[i].children_if_root \subseteq hist'.passed[i]
           IN /\ ~complete => (cfw'[i].data = cfw[i].data /\ last'.ret # Bool(TRUE))
              /\ complete => (cfw'[i].data = None /\ last'.ret = Bool(TRUE))
              /\ cfw'[i].already_calculated_children_tracker = hist'.passed[i]
      ]_vars

\* the declared children arrive over two calls and the second one clears a table
C2_Witness ==
    /\ last.op = "add_children"
    /\ last.ret = Bool(TRUE)
    /\ last.pre = "table"
    /\ cfw[last.inst].data = None
    /\ cfw[last.inst].children_if_root = {"c1", "c2"}
    /\ last.arg = {"c2"}

\* C3 (as claimed): a call that leaves the instance not done returns the declared
\* children not yet satisfied when object_ids is non-empty, False when it is
\* empty, and leaves the data unchanged.
C3_ReturnsPendingChildren ==
    [][ (/\ last'.op = "add_children"
         /\ ~(cfw'[last'.inst].children_if_root
                 \subseteq cfw'[last'.inst].already_calculated_children_tracker))
        => LET c == cfw'[last'.inst]
           IN /\ last'.ret = IF Len(c.object_ids) > 0
                             THEN FSet(c.children_if_root
                                          \ c.already_calculated_children_tracker)
                             ELSE Bool(FALSE)
              /\ c.data = cfw[last'.inst].data
      ]_vars

\* C3 (amended): such a call returns the whole declared children set
\* children_if_root, satisfied members included, when object_ids is non-empty,
\* False when it is empty, and leaves the data unchanged.
C3_ReturnsDeclaredChildren ==
    [][ (/\ last'.op = "add_children"
         /\ ~(cfw'[last'.inst].children_if_root
                 \subseteq cfw'[last'.inst].already_calculated_children_tracker))
        => LET c == cfw'[last'.inst]
           IN /\ last'.ret = IF Len(c.object_ids) > 0
                             THEN FSet(c.children_if_root)
                             ELSE Bool(FALSE)
              /\ c.data = cfw[last'.inst].data
      ]_vars

\* a not-done call on an instance with an upload and one child already satisfied
C3_Witness ==
    /\ last.op = "add_children"
    /\ last.ret = FSet({"c1", "c2"})
    /\ Len(cfw[last.inst].object_ids) > 0
    /\ cfw[last.inst].already_calculated_children_tracker = {"c1"}

\* the stages of run_calculation in the order of its body
PipelineOrder ==
    <<"validate_input", "calculate", "filter", "transform", "validate_output", "upload">>

IsPrefix(s, t) == Len(s) <= Len(t) /\ s = SubSeq(t, 1, Len(s))

\* the data the instance holds when input validation looks at it
DataAtInput(c, inp) == IF inp.data # None THEN inp.data ELSE c.data

\* the data the pipeline leaves on the instance after the transform stage
PipelineData(c, inp) ==
    dispatch_transform(c.cls, run_final_filter(c.cls, inp.result, inp.filters))

\* the count by which run_calculation decides that children are still waiting
StillHasChildren(c, inp) ==
    Cardinality(c.children_if_root)
        > Cardinality(c.already_calculated_children_tracker) + Cardinality(inp.features)

\* C11: run_calculation enters its stages in the order validate input, calculate,
\* final filter, transform, validate output, upload, each at most once; the
\* exchange changes only in a call that went through all of them, so nothing is
\* uploaded before output validation has passed, and what is uploaded is the
\* calculated data after the final filter and the transform.
C11_PipelineOrder ==
    [][ last'.op = "run_calculation"
        => LET i == last'.inst
               key == Str(cfw[i].uuid)
           IN /\ IsPrefix(last'.stages, PipelineOrder)
              /\ last'.stages # <<>>
              /\ last'.uploaded <=> last'.stages = PipelineOrder
              /\ ~last'.uploaded => flight' = flight
              /\ last'.uploaded =>
                    /\ ~IsRaise(run_validate_features(
                                    [cfw[i] EXCEPT !.data = PipelineData(cfw[i], last'.inp)],
                                    last'.inp.vout))
                    /\ convert_flyserver_data_back(cfw[i].cls, flight'[key])
                          = PipelineData(cfw[i], last'.inp)
      ]_vars

\* an upload of filtered data that passed both validations
C11_Witness ==
    /\ last.op = "run_calculation"
    /\ last.uploaded
    /\ last.inp.filters = {1}
    /\ last.inp.data # None
    /\ Len(flight[last.ret].rows) = 1

C13_ValidationFailureStops ==
    [][ last'.op = "run_calculation"
        => LET i == last'.inst
               c == cfw[i]
               inp == last'.inp
               in_asked == DataAtInput(c, inp) # None
               in_failed == in_asked /\ ~ValidationPasses(inp.vin)
               out_failed == /\ ~in_failed
                             /\ PipelineData(c, inp) # None
                             /\ ~ValidationPasses(inp.vout)
           IN /\ in_failed
                    => /\ last'.ret = Raise(inp.vin)
                       /\ last'.stages = <<"validate_input">>
                       /\ cfw'[i].data = DataAtInput(c, inp)
                       /\ flight' = flight
              /\ out_failed
                    => /\ last'.ret = Raise(inp.vout)
                       /\ ~last'.uploaded
                       /\ flight' = flight
                       /\ cfw'[i].object_ids = c.object_ids
              /\ IsRaise(last'.ret) => phase' = "aborted"
              /\ (~in_failed /\ ~out_failed) => ~IsRaise(last'.ret)
      ]_vars

\* output validation fails with a location, no child waiting and an empty exchange
C13_Witness ==
    /\ last.op = "run_calculation"
    /\ last.ret = Raise("missing column")
    /\ last.stages = SubSeq(PipelineOrder, 1, 5)
    /\ Truthy(location)
    /\ ~StillHasChildren(cfw[last.inst], last.inp)
    /\ flight = EmptyFlight

----------------------------------------------------------------------------
(* SpecIds: planning constructs the instances with or without a uuid argument,
   and the join steps; execution then uploads under the instances' uuids *)

InitIds ==
    /\ Blank
    /\ phase = "plan"
    /\ location \in {NoLocation, "loc"}
    /\ next_uuid = 1
    /\ cfw = [i \in Inst |-> NoCfw]
    /\ steps = [s \in StepIds |-> NoStep]

NextIds ==
    \/ \E i \in Inst, explicit \in BOOLEAN :
           Construct(i, "PandasDataframe", {"c1"}, explicit)
    \/ \E s \in StepIds :
           NewJoinStep(s, Link("inner", SimpleIdx, SimpleIdx),
                       "PandasDataframe", "PandasDataframe", ChildIds)
    \/ StartRun
    \/ \E i \in Inst : \E inp \in JoinInputs(i) : RunCalculation(i, inp)
    \/ \E i \in Inst, children \in ChildrenChoices : AddChildren(i, children)

SpecIds == InitIds /\ [][NextIds]_vars

\* C6 (as claimed): every exchange key is written by one framework instance only.
C6_OneWriterPerKey ==
    \A w1 \in hist.writers, w2 \in hist.writers : w1[1] = w2[1] => w1[2] = w2[2]

\* C7 (as claimed): two instances constructed without a uuid argument have
\* distinct uuids, and two join steps have distinct uuids.
C7_FreshIdentifiers ==
    /\ \A i \in Inst, j \in Inst :
          (i # j /\ cfw[i].made /\ cfw[j].made
               /\ ~cfw[i].explicit_uuid /\ ~cfw[j].explicit_uuid)
            => cfw[i].uuid # cfw[j].uuid
    /\ \A s \in StepIds, t \in StepIds :
          (s # t /\ steps[s].made /\ steps[t].made) => steps[s].uuid # steps[t].uuid

----------------------------------------------------------------------------
(* SpecEq: two instances of any class, children set and uuid; they calculate,
   get children reported and are put into a set *)

InitEq ==
    /\ Blank
    /\ phase = "run"
    /\ location = "loc"
    /\ next_uuid = 5
    /\ \E cls \in [Inst -> Classes], children \in [Inst -> {{"c1"}, ChildIds}],
          explicit \in BOOLEAN :
         cfw = [i \in Inst |->
                  ComputeFrameWork_init(cls[i], ModeOf(location), children[i],
                                        IF explicit THEN Uuid(PlannedUuid(i)) ELSE None)]
    /\ steps = [s \in StepIds |-> NoStep]

NextEq ==
    \/ \E i \in Inst :
         \E inp \in {x \in JoinInputs(i) : x.features = ChildIds} : RunCalculation(i, inp)
    \/ \E i \in Inst, children \in {{"c1"}, ChildIds} : AddChildren(i, children)
    \/ \E i \in Inst : AddToSet(i)

SpecEq == InitEq /\ [][NextEq]_vars

SameClassAndChildren(a, b) == a.cls = b.cls /\ a.children_if_root = b.children_if_root

\* C14: two instances are equal exactly when they have the same class name and
\* the same declared children set, whatever their uuids, data, trackers and
\* object_ids; equal instances have equal hashes; and no operation changes an
\* instance's hash or what it is equal to.
C14_EqualityByClassAndChildren ==
    [][ \A i \in Inst, j \in Inst :
          /\ ComputeFrameWork_eq(cfw'[i], cfw'[j]) <=> SameClassAndChildren(cfw'[i], cfw'[j])
          /\ ComputeFrameWork_eq(cfw'[i], cfw'[j])
                => ComputeFrameWork_hash(cfw'[i]) = ComputeFrameWork_hash(cfw'[j])
          /\ ComputeFrameWork_hash(cfw'[i]) = ComputeFrameWork_hash(cfw[i])
          /\ ComputeFrameWork_eq(cfw'[i], cfw'[j]) <=> ComputeFrameWork_eq(cfw[i], cfw[j])
          /\ ComputeFrameWork_eq(cfw'[i], cfw[i])
      ]_vars

\* equal instances that differ in uuid, data, tracker and object_ids
C14_Witness ==
    /\ ComputeFrameWork_eq(cfw["cfw1"], cfw["cfw2"])
    /\ cfw["cfw1"].uuid # cfw["cfw2"].uuid
    /\ IsStr(cfw["cfw1"].data) /\ cfw["cfw2"].data = None
    /\ cfw["cfw1"].already_calculated_children_tracker = {}
    /\ cfw["cfw2"].already_calculated_children_tracker = {"c1"}
    /\ cfw["cfw1"].object_ids # cfw["cfw2"].object_ids

\* C15 (as claimed): two instances with different uuids are never equal, and
\* every instance put into a set keeps an entry of its own uuid there.
C15_UuidIsTheUnit ==
    /\ \A i \in Inst, j \in Inst :
          cfw[i].uuid # cfw[j].uuid => ~ComputeFrameWork_eq(cfw[i], cfw[j])
    /\ \A i \in hist.added : \E j \in hist.bucket : cfw[j].uuid = cfw[i].uuid

\* C15 (amended): the unit of equality and hashing is the pair of class name
\* and declared children set: two instances with different uuids are equal, and
\* are one entry of a set, exactly when they agree on that pair.
C15_ClassAndChildrenIsTheUnit ==
    /\ \A i \in Inst, j \in Inst :
          cfw[i].uuid # cfw[j].uuid
            => (ComputeFrameWork_eq(cfw[i], cfw[j]) <=> SameClassAndChildren(cfw[i], cfw[j]))
    /\ hist.bucket \subseteq hist.added
    /\ \A i \in hist.added :
          Cardinality({j \in hist.bucket : SameClassAndChildren(cfw[j], cfw[i])}) = 1
    /\ \A i \in hist.added, j \in hist.added :
          (i # j /\ cfw[i].uuid # cfw[j].uuid)
            => ((Cardinality(hist.bucket) = 1) <=> SameClassAndChildren(cfw[i], cfw[j]))

\* two instances with different uuids were put into the set and one entry is left
C15_Witness ==
    /\ hist.added = Inst
    /\ cfw["cfw1"].uuid # cfw["cfw2"].uuid
    /\ Cardinality(hist.bucket) = 1
    /\ last.op = "set_add"
    /\ last.ret = Bool(TRUE)

----------------------------------------------------------------------------
(* SpecFn: the merge engine and transform as functions; the initial state holds
   the arguments of one call and the action applies the function to them *)

\* the tables of the merge tests; a text cell is written as the code point of
\* its letter: a = 97, b = 98, x = 120, z = 122
LeftData == Table("pa", {"idx", "col1"}, << [idx |-> 1, col1 |-> 97], [idx |-> 3, col1 |-> 98] >>)
RightData == Table("pa", {"idx", "col2"}, << [idx |-> 1, col2 |-> 120], [idx |-> 2, col2 |-> 122] >>)
AppendData == Table("pa", {"idx", "col1"}, << [idx |-> 1, col1 |-> 120], [idx |-> 2, col1 |-> 122] >>)

\* a table with a repeated key and a repeated row
RepeatData == Table("pa", {"idx", "col2"},
                    << [idx |-> 3, col2 |-> 120], [idx |-> 1, col2 |-> 122],
                       [idx |-> 3, col2 |-> 120] >>)

EmptyData == Table("pa", {"idx", "col1"}, <<>>)

FnTables ==
    {ToPtype(t, ptype) : t \in {LeftData, RightData, AppendData, RepeatData, EmptyData},
                         ptype \in {"pd", "pa"}}

IdxIndex == <<"idx">>
FnIndices == {IdxIndex, <<"col2">>, <<"idx", "col1">>}

MergeCalls ==
    [fn : {"merge"}, engine : MergeEngines, left_data : FnTables, right_data : FnTables,
     jointype : JoinTypes \cup OtherJoinTypes, left_index : FnIndices, right_index : FnIndices]

AppendCalls ==
    [fn : {"merge_append"}, left_data : FnTables, right_data : FnTables,
     left_index : {IdxIndex}, right_index : {IdxIndex}]

\* the classes transform and convert_flyserver_data_back are called on: the
\* abstract base, the dataframe and the columnar backend, and a subclass that
\* only declares its expected type
Backends == Classes \cup {"PyarrowTable", "CustomFramework"}

\* the mapping the table test builds its expected table from
DictData == PyDict(LeftData.cols, LeftData.rows)

TransformCalls ==
    [fn : {"transform"}, cls : Backends, data : FnTables \cup {None, PyList, DictData}]

ConvertCalls ==
    [fn : {"convert_flyserver_data_back"}, cls : Backends,
     data : FnTables \cup {None, PyList}]

\* the feature sets load and save are handed: every combination of the
\* attributes they read, which are plain attributes of the object
OptionsOfA == Options([k \in {"a"} |-> Str("stored")])
ArtifactFeatureSets ==
    {[FeatureSet_init EXCEPT !.options = o, !.name_of_one_feature = n,
                             !.artifact_to_load = l, !.artifact_to_save = sv] :
        o \in {None, OptionsOfA}, n \in {None, Str("a"), Str("b")},
        l \in {None, Str("a")}, sv \in {None, Str("b")}}

LoadCalls == [fn : {"load"}, cls : ArtifactClasses, features : ArtifactFeatureSets]
SaveCalls ==
    [fn : {"save"}, cls : ArtifactClasses, features : ArtifactFeatureSets,
     artifact : {None, Str("model")}]

\* every name of at most MaxNameLen pieces, for each function of the parser
FeatureNames == UNION {[1..n -> NameTokens] : n \in 0..MaxNameLen}
ParserCalls ==
    [fn : {"get_aggregation_type", "mloda_source_feature", "match_feature_group_criteria"},
     feature_name : FeatureNames]

InitFn ==
    /\ phase = "run"
    /\ location = NoLocation
    /\ next_uuid = 1
    /\ cfw = [i \in Inst |-> NoCfw]
    /\ steps = [s \in StepIds |-> NoStep]
    /\ flight = EmptyFlight
    /\ registry = {}
    /\ hist = NoHist
    /\ feature_set = None
    /\ sched = None
    /\ \E call \in MergeCalls \cup AppendCalls \cup TransformCalls \cup ConvertCalls
                     \cup LoadCalls \cup SaveCalls \cup ParserCalls :
         last = Op("call", "none", "none", call, "none", None, FALSE, FALSE, 0)

Returns(op, ret) ==
    /\ last' = Op(op, "none", "none", last.arg, "none", ret, FALSE, FALSE, 0)
    /\ UNCHANGED <<feature_set, sched>>
    /\ UNCHANGED <<phase, location, cfw, steps, flight, registry, next_uuid, hist>>

ApplyMerge ==
    /\ last.op = "call"
    /\ last.arg.fn = "merge"
    /\ Returns("merge", merge(last.arg.engine, last.arg.left_data, last.arg.right_data,
                              last.arg.jointype, last.arg.left_index, last.arg.right_index))

ApplyMergeAppend ==
    /\ last.op = "call"
    /\ last.arg.fn = "merge_append"
    /\ Returns("merge_append", merge_append(last.arg.left_data, last.arg.right_data,
                                            last.arg.left_index, last.arg.right_index))

ApplyTransform ==
    /\ last.op = "call"
    /\ last.arg.fn = "transform"
    /\ Returns("transform", dispatch_transform(last.arg.cls, last.arg.data))

ApplyConvertBack ==
    /\ last.op = "call"
    /\ last.arg.fn = "convert_flyserver_data_back"
    /\ Returns("convert_flyserver_data_back",
               convert_flyserver_data_back(last.arg.cls, last.arg.data))

ReturnsStaged(op, r) ==
    /\ last' = [Op(op, "none", "none", last.arg, "none", r.ret, FALSE, FALSE, 0)
                  EXCEPT !.stages = r.stages]
    /\ UNCHANGED <<phase, location, cfw, steps, flight, registry, next_uuid, hist,
                   feature_set, sched>>

ApplyLoad ==
    /\ last.op = "call"
    /\ last.arg.fn = "load"
    /\ ReturnsStaged("load", load(last.arg.cls, last.arg.features))

ApplySave ==
    /\ last.op = "call"
    /\ last.arg.fn = "save"
    /\ ReturnsStaged("save", save(last.arg.cls, last.arg.features, last.arg.artifact))

ApplyGetAggregationType ==
    /\ last.op = "call"
    /\ last.arg.fn = "get_aggregation_type"
    /\ Returns("get_aggregation_type", get_aggregation_type(last.arg.feature_name))

ApplyMlodaSourceFeature ==
    /\ last.op = "call"
    /\ last.arg.fn = "mloda_source_feature"
    /\ Returns("mloda_source_feature", mloda_source_feature(last.arg.feature_name))

ApplyMatchFeatureGroupCriteria ==
    /\ last.op = "call"
    /\ last.arg.fn = "match_feature_group_criteria"
    /\ Returns("match_feature_group_criteria",
               match_feature_group_criteria(last.arg.feature_name))

NextFn ==
    \/ ApplyGetAggregationType
    \/ ApplyMlodaSourceFeature
    \/ ApplyMatchFeatureGroupCriteria
    \/ ApplyMerge
    \/ ApplyMergeAppend
    \/ ApplyTransform
    \/ ApplyConvertBack
    \/ ApplyLoad
    \/ ApplySave

SpecFn == InitFn /\ [][NextFn]_vars

\* the words by which the error of an unimplemented primitive names the join type
JoinTypeWords(jointype) == IF jointype = "outer" THEN "full outer" ELSE jointype

\* the number of rows of the relational join: the key-matched row pairs, plus
\* the unmatched rows of the sides the join type keeps
JoinCount(L, R, k, how) ==
    LET pairs == {p \in (DOMAIN L.rows) \X (DOMAIN R.rows) : L.rows[p[1]][k] = R.rows[p[2]][k]}
        lonly == {a \in DOMAIN L.rows : \A b \in DOMAIN R.rows : L.rows[a][k] # R.rows[b][k]}
        ronly == {b \in DOMAIN R.rows : \A a \in DOMAIN L.rows : L.rows[a][k] # R.rows[b][k]}
    IN Cardinality(pairs)
         + (IF how \in {"left", "outer"} THEN Cardinality(lonly) ELSE 0)
         + (IF how \in {"right", "outer"} THEN Cardinality(ronly) ELSE 0)

\* C16: merge hands the data and both indices unchanged to the one primitive of
\* the join type (INNER merge_inner, LEFT merge_left, RIGHT merge_right, OUTER
\* merge_full_outer); for a join type outside the four, and for a primitive the
\* engine class does not implement, the outcome is an error naming the join
\* type and the engine class, and no data.
C16_MergeDispatch ==
    last.op = "merge"
        => LET a == last.arg
               unimplemented == a.engine = "BaseMergeEngine"
           IN /\ a.jointype = "inner"
                    => last.ret = merge_inner(a.engine, a.left_data, a.right_data,
                                              a.left_index, a.right_index)
              /\ a.jointype = "left"
                    => last.ret = merge_left(a.engine, a.left_data, a.right_data,
                                             a.left_index, a.right_index)
              /\ a.jointype = "right"
                    => last.ret = merge_right(a.engine, a.left_data, a.right_data,
                                              a.left_index, a.right_index)
              /\ a.jointype = "outer"
                    => last.ret = merge_full_outer(a.engine, a.left_data, a.right_data,
                                                   a.left_index, a.right_index)
              /\ (a.jointype \in JoinTypes /\ ~unimplemented)
                    => last.ret = merge_logic(a.engine, a.jointype, a.left_data,
                                              a.right_data, a.left_index, a.right_index)
              /\ a.jointype \notin JoinTypes
                    => last.ret = Raise("JoinType " \o a.jointype
                                          \o " are not yet implemented " \o a.engine)
              /\ (a.jointype \in JoinTypes /\ unimplemented)
                    => last.ret = Raise("JoinType " \o JoinTypeWords(a.jointype)
                                          \o " are not yet implemented " \o a.engine)
              /\ (a.jointype \notin JoinTypes \/ unimplemented) => ~IsTable(last.ret)

\* a RIGHT merge whose result is neither the LEFT nor the INNER one
C16_Witness ==
    /\ last.op = "merge"
    /\ last.arg.jointype = "right"
    /\ last.arg.engine = "PandasMergeEngine"
    /\ IsTable(last.ret)
    /\ last.ret # merge_left(last.arg.engine, last.arg.left_data, last.arg.right_data,
                             last.arg.left_index, last.arg.right_index)
    /\ last.ret # merge_inner(last.arg.engine, last.arg.left_data, last.arg.right_data,
                              last.arg.left_index, last.arg.right_index)

\* C17: with a composite index on the left or on the right, each of the four
\* joins of the dataframe engine ends in the unsupported-index error, and no
\* table comes back.
C17_CompositeIndexRaises ==
    (/\ last.op = "merge"
     /\ last.arg.engine = "PandasMergeEngine"
     /\ last.arg.jointype \in JoinTypes
     /\ (is_multi_index(last.arg.left_index) \/ is_multi_index(last.arg.right_index)))
        => last.ret = Raise("MultiIndex is not yet implemented PandasMergeEngine")

\* a left join of the test tables with a composite left index whose first
\* column alone would have joined them
C17_Witness ==
    /\ last.op = "merge"
    /\ last.arg.engine = "PandasMergeEngine"
    /\ last.arg.jointype = "left"
    /\ last.arg.left_data = ToPtype(LeftData, "pd")
    /\ last.arg.right_data = ToPtype(RightData, "pd")
    /\ last.arg.left_index = <<"idx", "col1">>
    /\ last.arg.right_index = IdxIndex
    /\ IsRaise(last.ret)

\* C18: with the simple index idx on both sides, merge of two dataframes that
\* share only idx is the relational join of the join type: its rows are the
\* key-matched pairs, plus the unmatched left rows with nulls (left, outer),
\* plus the unmatched right rows with nulls (right, outer), each as often as
\* the join has it; left = [(1,a),(3,b)] and right = [(1,x),(2,z)] give 1, 2, 2
\* and 3 rows for inner, left, right and outer.
C18_RelationalJoin ==
    (/\ last.op = "merge"
     /\ last.arg.engine = "PandasMergeEngine"
     /\ last.arg.jointype \in JoinTypes
     /\ last.arg.left_index = IdxIndex /\ last.arg.right_index = IdxIndex
     /\ last.arg.left_data.ptype = "pd" /\ last.arg.right_data.ptype = "pd"
     /\ last.arg.left_data.cols \cap last.arg.right_data.cols = {"idx"})
        => LET L == last.arg.left_data
               R == last.arg.right_data
               how == last.arg.jointype
           IN /\ IsTable(last.ret)
              /\ last.ret.cols = L.cols \cup R.cols
              /\ SeqToSet(last.ret.rows) = RelationalJoin(L, R, "idx", how)
              /\ Len(last.ret.rows) = JoinCount(L, R, "idx", how)
              /\ (L = ToPtype(LeftData, "pd") /\ R = ToPtype(RightData, "pd"))
                    => /\ Len(last.ret.rows) = CASE how = "inner" -> 1
                                                 [] how = "left" -> 2
                                                 [] how = "right" -> 2
                                                 [] how = "outer" -> 3
                       /\ how = "inner"
                            => last.ret.rows = << [idx |-> 1, col1 |-> 97, col2 |-> 120] >>

\* the full outer join of the test tables: the matched row and one padded row
\* of either side
C18_Witness ==
    /\ last.op = "merge"
    /\ last.arg.engine = "PandasMergeEngine"
    /\ last.arg.jointype = "outer"
    /\ last.arg.left_data = ToPtype(LeftData, "pd")
    /\ last.arg.right_data = ToPtype(RightData, "pd")
    /\ last.arg.left_index = IdxIndex /\ last.arg.right_index = IdxIndex
    /\ SeqToSet(last.ret.rows) = {[idx |-> 1, col1 |-> 97, col2 |-> 120],
                                  [idx |-> 2, col1 |-> NULL, col2 |-> 122],
                                  [idx |-> 3, col1 |-> 98, col2 |-> NULL]}

\* C19: merge_append of two tables of one schema is the left rows in their
\* order followed by the right rows in their order, so its row count is the sum
\* of the two row counts and equal rows are all kept.
C19_AppendConcatenates ==
    (/\ last.op = "merge_append"
     /\ last.arg.left_data.cols = last.arg.right_data.cols
     /\ last.arg.left_data.ptype = last.arg.right_data.ptype)
        => LET L == last.arg.left_data
               R == last.arg.right_data
           IN /\ IsTable(last.ret)
              /\ last.ret.cols = L.cols
              /\ Len(last.ret.rows) = Len(L.rows) + Len(R.rows)
              /\ SubSeq(last.ret.rows, 1, Len(L.rows)) = L.rows
              /\ SubSeq(last.ret.rows, Len(L.rows) + 1, Len(last.ret.rows)) = R.rows

\* a table appended to itself keeps every row twice
C19_Witness ==
    /\ last.op = "merge_append"
    /\ last.arg.left_data = LeftData
    /\ last.arg.right_data = LeftData
    /\ Len(last.ret.rows) = 4
    /\ last.ret.rows[1] = last.ret.rows[3]

\* C20: transform of data that already has the backend's expected physical type
\* returns that data unchanged, and transforming the result again returns it
\* once more.
C20_TransformIdentity ==
    (/\ last.op = "transform"
     /\ IsTable(last.arg.data)
     /\ last.arg.data.ptype = expected_data_framework(last.arg.cls))
        => /\ last.ret = last.arg.data
           /\ dispatch_transform(last.arg.cls, last.ret) = last.ret

\* a dataframe handed to the dataframe backend
C20_Witness ==
    /\ last.op = "transform"
    /\ last.arg.cls = "PandasDataframe"
    /\ last.arg.data = ToPtype(LeftData, "pd")
    /\ last.ret = ToPtype(LeftData, "pd")

----------------------------------------------------------------------------
(* SpecMatch: JoinStep.matched over every step configuration and argument *)

MatchFrameworks == Classes \cup {"PyarrowTable"}
MatchIds == ChildIds \cup {"c3"}

InitMatch ==
    /\ Blank
    /\ phase = "run"
    /\ location = NoLocation
    /\ next_uuid = 3
    /\ cfw = [i \in Inst |-> NoCfw]
    /\ \E lf \in MatchFrameworks, rf \in MatchFrameworks, req \in SUBSET MatchIds :
         steps = [s \in StepIds |->
                    IF s = "js1"
                    THEN JoinStep_init(Link("inner", SimpleIdx, SimpleIdx), lf, rf, req, 1)
                    ELSE JoinStep_init(Link("left", SimpleIdx, SimpleIdx), rf, rf,
                                       MatchIds \ req, 2)]

NextMatch ==
    \E s \in StepIds, other_framework \in MatchFrameworks, uuid \in MatchIds :
        Matched(s, other_framework, uuid)

SpecMatch == InitMatch /\ [][NextMatch]_vars

\* C8: matched returns the step's own uuid exactly when the id is required and
\* the framework type is the left or the right framework, and None otherwise.
C8_MatchedRouting ==
    last.op = "matched"
        => LET st == steps[last.step]
               routed == /\ last.arg \in st.required_uuids
                         /\ last.inst \in {st.left_framework, st.right_framework}
           IN /\ routed => last.ret = Uuid(st.uuid)
              /\ ~routed => last.ret = None

\* the framework type matches but the id is not required
C8_Witness ==
    /\ last.op = "matched"
    /\ last.inst = steps[last.step].left_framework
    /\ last.arg \notin steps[last.step].required_uuids
    /\ last.ret = None

----------------------------------------------------------------------------
(* Properties of transform and convert_flyserver_data_back (SpecFn) *)

\* a conversion function is registered for data coming in as this type
HasConversion(cls, data) ==
    IsTable(data) /\ get_framework_transform_functions(cls, TRUE, data.ptype) # "nofunc"

\* C21 (as claimed): transform either raises or returns data of the backend's
\* expected physical type.
C21_TransformRaisesOrExpected ==
    last.op = "transform"
        => \/ IsRaise(last.ret)
           \/ TypeOf(last.ret) = expected_data_framework(last.arg.cls)

\* the classes that inherit transform from ComputeFrameWork
InheritsTransform(cls) == cls # "PyarrowTable"

\* C21 (amended): transform as ComputeFrameWork defines it, with the default
\* transform map and on a backend that declares an expected type, does not
\* raise: data of the expected type comes back unchanged, data a registered
\* conversion function applies to comes back converted to the expected type,
\* and all other data comes back unchanged, whatever its type. A backend that
\* overrides transform, as the columnar backend does, returns data of its
\* expected type or raises.
C21_TransformConvertsOrPassesThrough ==
    last.op = "transform"
        => LET cls == last.arg.cls
               data == last.arg.data
               expected == expected_data_framework(cls)
           IN /\ (InheritsTransform(cls) /\ expected # "none")
                    => /\ ~IsRaise(last.ret)
                       /\ TypeOf(data) = expected => last.ret = data
                       /\ (TypeOf(data) # expected /\ HasConversion(cls, data))
                             => /\ TypeOf(last.ret) = expected
                                /\ last.ret.rows = data.rows
                                /\ last.ret.cols = data.cols
                       /\ (TypeOf(data) # expected /\ ~HasConversion(cls, data))
                             => last.ret = data
              /\ ~InheritsTransform(cls)
                    => /\ IsRaise(last.ret) \/ TypeOf(last.ret) = expected
                       /\ IsRaise(last.ret) <=> TypeOf(data) \notin {expected, "dict"}

\* a list handed to a backend that inherits transform comes back as the list
C21_Witness ==
    /\ last.op = "transform"
    /\ last.arg.cls = "CustomFramework"
    /\ last.arg.data = PyList
    /\ last.ret = PyList

\* C22: for a table in the exchange's canonical representation,
\* convert_flyserver_data_back returns data of the backend's native type or
\* raises, and it raises whenever that table is not of the native type and no
\* conversion function is registered.
C22_ConvertBackNativeOrRaise ==
    (/\ last.op = "convert_flyserver_data_back"
     /\ TypeOf(last.arg.data) = "pa")
        => LET cls == last.arg.cls
               data == last.arg.data
               native == expected_data_framework(cls)
           IN /\ IsRaise(last.ret) \/ TypeOf(last.ret) = native
              /\ (native # "pa" /\ ~HasConversion(cls, data)) => IsRaise(last.ret)
              /\ native = "pa" => last.ret = data
              /\ (native # "pa" /\ HasConversion(cls, data))
                    => /\ TypeOf(last.ret) = native
                       /\ last.ret.rows = data.rows
                       /\ last.ret.cols = data.cols

\* a backend with its own native type and no conversion gets the error
C22_Witness ==
    /\ last.op = "convert_flyserver_data_back"
    /\ last.arg.cls = "CustomFramework"
    /\ last.arg.data = LeftData
    /\ last.ret = Raise("Conversion is not supported")

----------------------------------------------------------------------------
(* Properties of BaseArtifact.load and save (SpecFn) *)

Requested(call) ==
    IF call.fn = "load" THEN call.features.artifact_to_load # None
    ELSE call.features.artifact_to_save # None

Unpopulated(features) ==
    features.options = None \/ features.name_of_one_feature = None

CustomInvoked(op) ==
    "custom_loader" \in SeqToSet(op.stages) \/ "custom_saver" \in SeqToSet(op.stages)

\* C26: load returns None only when no artifact load was requested; when one
\* was requested it returns an artifact that is not None, or raises. save does
\* the same with respect to artifact_to_save.
C26_NoneOnlyWhenNotRequested ==
    last.op \in {"load", "save"}
        => /\ last.ret = None => ~Requested(last.arg)
           /\ Requested(last.arg) => IsRaise(last.ret) \/ last.ret # None

\* a loader that yields nothing for a requested artifact is an error
C26_Witness ==
    /\ last.op = "load"
    /\ last.arg.cls = "EmptyArtifact"
    /\ last.arg.features.artifact_to_load = Str("a")
    /\ last.ret = Raise("No artifact to load although it was requested.")

\* C27 as stated: on a feature set whose options or representative name is
\* missing, load and save raise and never invoke the custom loader or saver.
C27_UnpopulatedAlwaysRaises ==
    (last.op \in {"load", "save"} /\ Unpopulated(last.arg.features))
        => IsRaise(last.ret) /\ ~CustomInvoked(last)

\* C27 (amended): load and save check the feature set's options and
\* representative name only when an artifact was requested: then, if either
\* is missing, they raise the contract-violation error without invoking the
\* custom loader or saver; when no artifact was requested they return None
\* without checking anything and without invoking the custom loader or saver.
C27_RequestedUnpopulatedRaises ==
    (last.op \in {"load", "save"} /\ Unpopulated(last.arg.features))
        => /\ ~CustomInvoked(last)
           /\ Requested(last.arg)
                => last.ret = IF last.arg.features.options = None
                              THEN Raise("No options set")
                              ELSE Raise("Feature name missing in feature set.")
           /\ ~Requested(last.arg) => last.ret = None /\ last.stages = <<>>

\* a requested load on a set with options but no representative name
C27_Witness ==
    /\ last.op = "load"
    /\ last.arg.features.artifact_to_load = Str("a")
    /\ last.arg.features.options = OptionsOfA
    /\ last.arg.features.name_of_one_feature = None
    /\ last.ret = Raise("Feature name missing in feature set.")
    /\ last.stages = <<"_validate">>

----------------------------------------------------------------------------
(* Properties of the aggregated feature name parser (SpecFn) *)

\* str.count(sep): occurrences counted from left to right, none overlapping
\* an occurrence already counted
RECURSIVE str_count(_, _)
str_count(s, sep) ==
    IF Len(s) < Len(sep) THEN 0
    ELSE IF SubSeq(s, 1, Len(sep)) = sep
         THEN 1 + str_count(SubSeq(s, Len(sep) + 1, Len(s)), sep)
         ELSE str_count(Tail(s), sep)

\* where the separator first occurs in a name that contains it
FirstSeparator(name) ==
    CHOOSE k \in 1..Len(name) :
        /\ SubSeq(name, k, k + 2) = AggrSeparator
        /\ \A g \in 1..(k - 1) : SubSeq(name, g, g + 2) # AggrSeparator

TypePart(name) == SubSeq(name, 1, FirstSeparator(name) - 1)
SourcePart(name) == SubSeq(name, FirstSeparator(name) + 3, Len(name))

\* <type>_aggr_<source> with the separator once and both parts non-empty
WellFormedName(name) ==
    /\ str_count(name, AggrSeparator) = 1
    /\ TypePart(name) # <<>>
    /\ SourcePart(name) # <<>>

\* C30: the parser accepts exactly the names <type>_aggr_<source> that contain
\* the separator once (counted as str.count does, left to right without
\* overlap) with both parts non-empty, and returns <type> and <source>; for
\* every other name both extractors raise ValueError; and
\* match_feature_group_criteria is true exactly for accepted names whose type
\* is a supported aggregation type.
C30_ParserAcceptsWellFormedNames ==
    LET name == last.arg.feature_name
    IN /\ last.op = "get_aggregation_type"
            => last.ret = IF WellFormedName(name) THEN Str(TypePart(name)) ELSE InvalidName
       /\ last.op = "mloda_source_feature"
            => last.ret = IF WellFormedName(name) THEN Str(SourcePart(name)) ELSE InvalidName
       /\ last.op = "match_feature_group_criteria"
            => last.ret = Bool(WellFormedName(name) /\ TypePart(name) \in AGGREGATION_TYPES)

\* sum_aggr_aggr_sum is split at the first separator: type sum, source aggr_sum
C30_Witness ==
    /\ last.op = "get_aggregation_type"
    /\ last.arg.feature_name = <<"sum", "_", "aggr", "_", "aggr", "_", "sum">>
    /\ last.ret = Str(<<"sum">>)

----------------------------------------------------------------------------
(* SpecFs: one FeatureSet from its construction on; features are added and
   removed and filters are set, in any order *)

OptionsA == Options([k \in {"b"} |-> Str("stored")])
OptionsB == Options([k \in {"x"} |-> Str("other")])

\* the features the planner may put into the set
FsFeatures ==
    {Feature("a", OptionsA, 11), Feature("b", OptionsA, 12), Feature("c", OptionsB, 13)}

\* arguments of add_filters: sets of filters, and a list
FilterArgs == {PySet({}), PySet({1}), PyList}

InitFs ==
    /\ phase = "plan"
    /\ location = NoLocation
    /\ next_uuid = 1
    /\ cfw = [i \in Inst |-> NoCfw]
    /\ steps = [s \in StepIds |-> NoStep]
    /\ flight = EmptyFlight
    /\ registry = {}
    /\ last = NoOp
    /\ hist = NoHist
    /\ feature_set = FeatureSet_init
    /\ sched = None

FsCall(op, arg, ret) ==
    /\ last' = Op(op, "none", "none", arg, "none", ret, FALSE, FALSE, 0)
    /\ UNCHANGED <<phase, location, cfw, steps, flight, registry, next_uuid, sched>>

Add(feature) ==
    /\ feature_set' = FeatureSet_add(feature_set, feature)
    /\ hist' = [hist EXCEPT !.first = IF @ = None THEN feature ELSE @]
    /\ FsCall("add", feature, None)

Remove(feature) ==
    /\ feature_set' = FeatureSet_remove(feature_set, feature)
    /\ UNCHANGED hist
    /\ FsCall("remove", feature, None)

AddFilters(single_filters) ==
    LET r == add_filters(feature_set, single_filters)
    IN /\ feature_set' = r.fs
       /\ UNCHANGED hist
       /\ FsCall("add_filters", single_filters, r.ret)

\* the names add_artifact_name may meet first among the option keys
FirstMatches(fs) ==
    IF fs.options = None \/ get_all_names(fs) \cap DOMAIN fs.options.data = {}
    THEN {"none"}
    ELSE get_all_names(fs) \cap DOMAIN fs.options.data

AddArtifactName ==
    \E feature_name \in FirstMatches(feature_set) :
        LET r == add_artifact_name(feature_set, feature_name)
        IN /\ feature_set' = r.fs
           /\ UNCHANGED hist
           /\ FsCall("add_artifact_name", feature_name, r.ret)

\* BaseArtifact.load with the default loader on the set
Load ==
    /\ UNCHANGED <<feature_set, hist>>
    /\ FsCall("load", feature_set, load("BaseArtifact", feature_set).ret)

NextFs ==
    \/ \E feature \in FsFeatures : Add(feature)
    \/ \E feature \in FsFeatures : Remove(feature)
    \/ \E single_filters \in FilterArgs : AddFilters(single_filters)
    \/ AddArtifactName
    \/ Load

SpecFs == InitFs /\ [][NextFs]_vars

\* C23: once a feature has been added, the set's options and its
\* representative feature name are those of the first feature ever added,
\* whatever is added or removed afterwards.
C23_FirstFeatureFrozen ==
    hist.first # None
        => /\ feature_set.options = hist.first.options
           /\ feature_set.name_of_one_feature = Str(hist.first.name)

\* C24: every member feature carries the set's options, so the members share
\* exactly one options bag, and the set has one name of record.
C24_MembersShareOptions ==
    /\ \A feature \in feature_set.features : feature.options = feature_set.options
    /\ feature_set.features # {} => feature_set.name_of_one_feature # None

\* C25: add_filters stores filters at most once: a call on a set whose filters
\* are already stored raises and leaves them as they were, a call with an
\* argument that is not a set raises and leaves the filters unset, and no
\* other operation changes stored filters.
C25_FiltersSetOnce ==
    [][/\ feature_set.filters # None => feature_set'.filters = feature_set.filters
       /\ last'.op = "add_filters"
            => /\ feature_set.filters # None => IsRaise(last'.ret)
               /\ (feature_set.filters = None /\ last'.arg.kind # "set")
                     => IsRaise(last'.ret) /\ feature_set'.filters = None
               /\ (feature_set.filters = None /\ last'.arg.kind = "set")
                     => last'.ret = None /\ feature_set'.filters = last'.arg]_vars

\* a second set of filters is refused after the first was stored
C25_Witness ==
    /\ last.op = "add_filters"
    /\ last.arg = PySet({1})
    /\ IsRaise(last.ret)
    /\ feature_set.filters = PySet({})

\* C39: when add_artifact_name has just marked an artifact to load, load with
\* the default loader returns the options value stored under the marked name
\* artifact_to_load, however many features were added and in whatever order.
C39_LoadReturnsMarkedArtifact ==
    [][ (/\ last.op = "add_artifact_name"
         /\ last.ret = None
         /\ feature_set.artifact_to_load # None
         /\ last'.op = "load")
        => last'.ret = Options_get(feature_set.options, feature_set.artifact_to_load.val)
      ]_vars

----------------------------------------------------------------------------
(* SpecSched: the scheduler dispatches the steps of one plan to workers and
   awaits them. The plan has a feature step on each of two instances and two
   join steps that merge the second instance into the first; the run is
   synchronous, on a thread pool, or on processes that share the exchange. *)

SchedModes == {"SYNC", "THREADING", "MULTIPROCESSING"}

FeatureSteps == {"fs1", "fs2"}
PlanSteps == FeatureSteps \cup StepIds

IsJoin(p) == p \in StepIds

\* the instance a step works on, the instance a join takes its from-side of,
\* and the feature id a feature step produces
StepInstance(p) == IF p = "fs2" THEN "cfw2" ELSE "cfw1"
StepFrom(p) == "cfw2"
StepFeature(p) == IF p = "fs1" THEN "c1" ELSE "c2"

\* the instances whose data, tracker or object_ids a step reads or writes
Touches(p) == IF IsJoin(p) THEN {StepInstance(p), StepFrom(p)} ELSE {StepInstance(p)}

NoSched == [mode |-> "SYNC", running |-> {}, done |-> {}, satisfied |-> [s \in StepIds |-> {}]]

\* a join is presented once every required feature id was reported to it
MutJoinReadyOnAnyFeature(sc, sts, p) ==
    step_is_pending(sts[p]) /\ sts[p].required_uuids \cap sc.satisfied[p] # {}

join_is_ready(sc, sts, p) ==
    step_is_pending(sts[p]) /\ sts[p].required_uuids \subseteq sc.satisfied[p]

\* an instance is given to one step at a time
MutInstanceFreeIgnoresJoins(sc, p) ==
    \A q \in sc.running : IsJoin(q) \/ Touches(q) \cap Touches(p) = {}

instance_is_free(sc, p) ==
    \A q \in sc.running : Touches(q) \cap Touches(p) = {}

is_runnable(sc, sts, p) ==
    /\ p \notin sc.running \cup sc.done
    /\ sc.mode = "SYNC" => sc.running = {}
    /\ instance_is_free(sc, p)
    /\ IsJoin(p) => join_is_ready(sc, sts, p)

\* a freshly computed feature is routed to the joins that matched reports
route_feature(sc, sts, framework, uuid) ==
    [sc EXCEPT !.satisfied =
        [s \in StepIds |-> IF matched(sts[s], framework, uuid) # None
                           THEN @[s] \cup {uuid} ELSE @[s]]]

\* what the feature group of a feature step is given and calculates
StepInputs(p) ==
    [features : {{StepFeature(p)}}, data : {None}, vin : {"None"},
     vout : {"True", "False"}, filters : {{}}, result : {BaseTable(StepInstance(p))}]

\* the from-side travels by reference inside one process, by uuid between processes
FromSide(sc, cs, j) ==
    IF sc.mode = "MULTIPROCESSING" THEN Uuid(cs[j].uuid) ELSE Obj(j, cs[j])

InitSched ==
    /\ flight = EmptyFlight
    /\ registry = {}
    /\ last = NoOp
    /\ hist = NoHist
    /\ feature_set = None
    /\ phase = "run"
    /\ next_uuid = 5
    /\ \E mode \in SchedModes :
         /\ sched = [NoSched EXCEPT !.mode = mode]
         /\ location = IF mode = "MULTIPROCESSING" THEN "loc" ELSE NoLocation
         /\ cfw = [i \in Inst |->
                     ComputeFrameWork_init("PandasDataframe", mode,
                                           PlannedChildren(i), Uuid(PlannedUuid(i)))]
    /\ \E lk \in RunLinks :
         steps = [s \in StepIds |->
                    JoinStep_init(IF s = "js1" THEN lk ELSE Link("left", SimpleIdx, SimpleIdx),
                                  "PandasDataframe", "PandasDataframe",
                                  ChildIds, PlannedStepUuid(s))]

Dispatch(p) ==
    /\ phase = "run"
    /\ is_runnable(sched, steps, p)
    /\ sched' = [sched EXCEPT !.running = @ \cup {p}]
    /\ last' = Op("dispatch", StepInstance(p), p, {}, cfw[StepInstance(p)].data.kind,
                  None, FALSE, FALSE, 0)
    /\ UNCHANGED <<phase, location, cfw, steps, flight, registry, next_uuid, hist,
                   feature_set>>

Finished(sc, p) == [sc EXCEPT !.running = @ \ {p}, !.done = @ \cup {p}]

CompleteFeature(p, inp) ==
    /\ phase = "run"
    /\ p \in sched.running
    /\ ~IsJoin(p)
    /\ LET i == StepInstance(p)
           r == run_calculation(cfw[i], flight, location, inp, next_uuid)
       IN /\ cfw' = [cfw EXCEPT ![i] = r.c]
          /\ flight' = r.flight
          /\ registry' = IF r.uploaded THEN registry \cup {cfw[i].uuid} ELSE registry
          /\ sched' = IF IsRaise(r.ret) THEN Finished(sched, p)
                      ELSE route_feature(Finished(sched, p), steps, cfw[i].cls,
                                         StepFeature(p))
          /\ last' = [Op("run_calculation", i, p, inp.features, cfw[i].data.kind,
                         r.ret, r.uploaded, FALSE, 0)
                        EXCEPT !.inp = inp, !.stages = r.stages]
          /\ phase' = PhaseAfter(r.ret)
    /\ UNCHANGED <<location, steps, next_uuid, hist, feature_set>>

CompleteJoin(p) ==
    /\ phase = "run"
    /\ p \in sched.running
    /\ IsJoin(p)
    /\ LET i == StepInstance(p)
           from_cfw == FromSide(sched, cfw, StepFrom(p))
           r == JoinStep_execute(steps[p], registry, cfw[i], from_cfw, flight,
                                 location, next_uuid)
       IN /\ cfw' = [cfw EXCEPT ![i] = r.c]
          /\ flight' = r.flight
          /\ steps' = [steps EXCEPT ![p] =
                         IF IsRaise(r.ret) THEN r.step ELSE mark_step_done(r.step)]
          /\ sched' = Finished(sched, p)
          /\ last' = Op("execute", i, p, from_cfw, cfw[i].data.kind, r.ret,
                        r.uploaded, r.merged, 0)
          /\ phase' = PhaseAfter(r.ret)
    /\ UNCHANGED <<location, registry, next_uuid, hist, feature_set>>

NextSched ==
    \/ \E p \in PlanSteps : Dispatch(p)
    \/ \E p \in PlanSteps : \E inp \in StepInputs(p) : CompleteFeature(p, inp)
    \/ \E p \in PlanSteps : CompleteJoin(p)

SpecSched == InitSched /\ [][NextSched]_vars

\* the data a join would read of its from-side in the current state
FromDataNow(p) ==
    IF sched.mode = "MULTIPROCESSING"
    THEN FlightServer_download_table(flight, Str(cfw[StepFrom(p)].uuid))
    ELSE cfw[StepFrom(p)].data

\* C28: in every mode and interleaving a join step is executed only after the
\* feature steps of both its destination and its from-side have completed, so
\* the data it merges has been produced: neither side is None or absent from
\* the exchange.
C28_JoinAfterBothBranches ==
    [][last'.op = "execute"
         => LET p == last'.step
            IN /\ FeatureSteps \subseteq sched.done
               /\ cfw[StepInstance(p)].data # None
               /\ IsTable(FromDataNow(p))]_vars

\* on the thread pool a join merged the two computed tables
C28_Witness ==
    /\ last.op = "execute"
    /\ sched.mode = "THREADING"
    /\ last.merged
    /\ FeatureSteps \subseteq sched.done

\* C29: on the thread pool no two dispatched steps work on the same instance:
\* the instances a running step reads or writes are touched by no other
\* running step.
C29_OneStepPerInstance ==
    sched.mode = "THREADING"
        => \A p \in sched.running, q \in sched.running :
              p # q => Touches(p) \cap Touches(q) = {}

\* two feature steps run on the pool at once, each on its own instance
C29_Witness ==
    /\ sched.mode = "THREADING"
    /\ sched.running = FeatureSteps

----------------------------------------------------------------------------
(* SpecJoin: one join step into the first instance, of any link the planner
   can hand it and onto a backend with or without a merge engine; the
   instances calculate, and the step is executed with every from-side *)

\* links of supported, composite-index and unsupported kind
JoinLinks == RunLinks \cup {Link("append", SimpleIdx, SimpleIdx)}

InitJoin ==
    /\ Blank
    /\ phase = "run"
    /\ location \in {NoLocation, "loc"}
    /\ next_uuid = 5
    /\ \E cls \in Classes :
         cfw = [i \in Inst |->
                  ComputeFrameWork_init(IF i = "cfw1" THEN cls ELSE "PandasDataframe",
                                        ModeOf(location), PlannedChildren(i),
                                        Uuid(PlannedUuid(i)))]
    /\ \E lk \in JoinLinks :
         steps = [s \in StepIds |->
                    IF s = "js1"
                    THEN JoinStep_init(lk, "PandasDataframe", "PandasDataframe",
                                       ChildIds, PlannedStepUuid(s))
                    ELSE NoStep]

NextJoin ==
    \/ \E i \in Inst : \E inp \in JoinInputs(i) : RunCalculation(i, inp)
    \/ \E s \in StepIds : \E from_cfw \in FromChoices("cfw1") :
           ExecuteJoin(s, "cfw1", from_cfw)

SpecJoin == InitJoin /\ [][NextJoin]_vars

\* C31: execute without a from-side raises its own error; the destination
\* instance is as before, no merge was made and the exchange holds what it held.
C31_NoFromSideRaises ==
    [][(last'.op = "execute" /\ last'.arg = None)
         => /\ last'.ret = Raise("From_cfw should not be none for join step.")
            /\ cfw' = cfw
            /\ flight' = flight
            /\ ~last'.merged
            /\ ~last'.uploaded]_vars

\* the destination held a table when the step was run without a from-side
C31_Witness ==
    /\ last.op = "execute"
    /\ last.arg = None
    /\ last.pre = "table"
    /\ IsRaise(last.ret)

\* the table the exchange holds under the from instance's uuid, converted back
ViaExchange(c, from_cfw) ==
    LET data == FlightServer_download_table(flight, Str(from_cfw.val))
    IN IF IsRaise(data) THEN data ELSE convert_flyserver_data_back(c.cls, data)

\* C32: the from-side data comes through the exchange (download, then
\* conversion back to the destination's native type) exactly when the from-side
\* is an id and a location is configured, and from the from-instance itself
\* when it is an instance; an id without a location raises and nothing is
\* merged.
C32_FromSideData ==
    [][(last'.op = "execute" /\ last'.arg # None)
         => LET from_cfw == last'.arg
                c == cfw[last'.inst]
            IN /\ (from_cfw.kind = "uuid" /\ Truthy(location))
                     => last'.inp = ViaExchange(c, from_cfw)
               /\ from_cfw.kind = "cfw" => last'.inp = from_cfw.obj.data
               /\ (from_cfw.kind = "uuid" /\ ~Truthy(location))
                     => /\ last'.ret = Raise("From_cfw is a UUID, but we are not using flightserver.")
                        /\ ~last'.merged
                        /\ cfw' = cfw]_vars

\* a from-side given by id was downloaded and converted for a merge
C32_Witness ==
    /\ last.op = "execute"
    /\ last.arg.kind = "uuid"
    /\ Truthy(location)
    /\ IsTable(last.inp)
    /\ last.inp.ptype = "pd"
    /\ last.merged

\* what the merge of an execute call comes to: the backend's merge engine, or
\* the error of a backend that has none, applied to both sides
MergeOutcome(c, st, from_data) ==
    IF merge_engine(c.cls) = "NotImplementedError"
    THEN Raise("Merge functionality is for this compute framework not implemented")
    ELSE merge(merge_engine(c.cls), c.data, from_data, st.link.jointype,
               st.link.left_index, st.link.right_index)

\* C33: when the merge of an execute call raises (join type not supported,
\* composite index, no merge engine on the backend), execute raises that
\* error, the destination instance is exactly as before, and nothing is
\* uploaded to the exchange.
C33_MergeErrorLeavesData ==
    [][(/\ last'.op = "execute"
        /\ last'.arg # None
        /\ ~IsRaise(last'.inp)
        /\ IsRaise(MergeOutcome(cfw[last'.inst], steps[last'.step], last'.inp)))
         => /\ last'.ret = MergeOutcome(cfw[last'.inst], steps[last'.step], last'.inp)
            /\ cfw' = cfw
            /\ flight' = flight
            /\ ~last'.uploaded]_vars

\* a join of a kind the engine does not implement, on a calculated table
C33_Witness ==
    /\ last.op = "execute"
    /\ last.pre = "table"
    /\ IsTable(last.inp)
    /\ last.ret = NotYetImplemented("append", "PandasMergeEngine")

----------------------------------------------------------------------------
(* PyArrowMissingValueFeatureGroup: forward and backward fill. A table is a
   sequence of rows with a group key g and a source value v; None is null.
   Row and array positions are counted from 0 as in the code, so position i
   is element i + 1 of the sequence. *)

Num(n) == [kind |-> "num", val |-> n]

FillGroups == {"A", "B"}
FillValues == {None, Num(1), Num(2)}
FillTables == UNION {[1..n -> [g : FillGroups, v : FillValues]] : n \in 0..MaxRows}
FillMethods == {"ffill", "bfill"}

At(array, idx) == array[idx + 1]
Positions(array) == 0..(Len(array) - 1)
Max(S) == CHOOSE x \in S : \A y \in S : y <= x
Min(S) == CHOOSE x \in S : \A y \in S : x <= y

\* data.column(mloda_source_feature)
source_column_of(data) == [k \in 1..Len(data) |-> data[k].v]

\* pc.filter(source_column, group_mask): the values of the rows of one group,
\* in table order, as an array of its own
RECURSIVE pc_filter(_, _)
pc_filter(data, group_key) ==
    IF data = <<>> THEN <<>>
    ELSE (IF Head(data).g = group_key THEN <<Head(data).v>> ELSE <<>>)
            \o pc_filter(Tail(data), group_key)

\* pc.indices_nonzero(pc.is_valid(group_data))
valid_indices_of(group_data) == {idx \in Positions(group_data) : At(group_data, idx) # None}

\* the value the loop body of _perform_grouped_imputation appends for row i;
\* the overall fallback stays None for the two fill methods
grouped_value(data, imputation_method, i) ==
    LET value == At(source_column_of(data), i)
        overall_value == None
        group_data == pc_filter(data, At(data, i).g)
        valid_indices == valid_indices_of(group_data)
        valid_indices_before == {idx \in valid_indices : idx < i}
        valid_indices_after == {idx \in valid_indices : idx > i}
        group_value ==
            IF imputation_method = "ffill" /\ valid_indices_before # {}
            THEN At(group_data, Max(valid_indices_before))
            ELSE IF imputation_method = "bfill" /\ valid_indices_after # {}
                 THEN At(group_data, Min(valid_indices_after))
                 ELSE None
    IN IF value # None THEN value
       ELSE IF group_value = None THEN overall_value ELSE group_value

\* PyArrowMissingValueFeatureGroup._perform_grouped_imputation for ffill, bfill
perform_grouped_imputation(data, imputation_method) ==
    [k \in 1..Len(data) |-> grouped_value(data, imputation_method, k - 1)]

\* PyArrowMissingValueFeatureGroup._perform_fill_direction: one pass that
\* carries the last valid value seen, from the front or from the back
RECURSIVE fill_forward(_, _)
fill_forward(values, last_valid) ==
    IF values = <<>> THEN <<>>
    ELSE IF Head(values) # None
         THEN <<Head(values)>> \o fill_forward(Tail(values), Head(values))
         ELSE <<last_valid>> \o fill_forward(Tail(values), last_valid)

Reverse(s) == [k \in 1..Len(s) |-> s[Len(s) + 1 - k]]

perform_fill_direction(column, direction) ==
    IF direction = "forward" THEN fill_forward(column, None)
    ELSE IF direction = "backward" THEN Reverse(fill_forward(Reverse(column), None))
    ELSE column

----------------------------------------------------------------------------
(* SpecFill: one table of at most MaxRows rows is imputed, once within its
   groups and once as a whole column *)

FillCalls ==
    [fn : {"_perform_grouped_imputation", "_perform_fill_direction"},
     data : FillTables, imputation_method : FillMethods]

InitFill ==
    /\ phase = "run"
    /\ location = NoLocation
    /\ next_uuid = 1
    /\ cfw = [i \in Inst |-> NoCfw]
    /\ steps = [s \in StepIds |-> NoStep]
    /\ flight = EmptyFlight
    /\ registry = {}
    /\ hist = NoHist
    /\ feature_set = None
    /\ sched = None
    /\ \E call \in FillCalls :
         last = Op("call", "none", "none", call, "none", None, FALSE, FALSE, 0)

FillReturns(ret) ==
    /\ last' = [last EXCEPT !.op = last.arg.fn, !.ret = ret]
    /\ UNCHANGED <<phase, location, cfw, steps, flight, registry, next_uuid, hist,
                   feature_set, sched>>

ApplyGroupedImputation ==
    /\ last.op = "call"
    /\ last.arg.fn = "_perform_grouped_imputation"
    /\ FillReturns(perform_grouped_imputation(last.arg.data, last.arg.imputation_method))

ApplyFillDirection ==
    /\ last.op = "call"
    /\ last.arg.fn = "_perform_fill_direction"
    /\ FillReturns(perform_fill_direction(
                       source_column_of(last.arg.data),
                       IF last.arg.imputation_method = "ffill" THEN "forward"
                       ELSE "backward"))

NextFill == ApplyGroupedImputation \/ ApplyFillDirection

SpecFill == InitFill /\ [][NextFill]_vars

\* the table positions of the non-null values of row i's group before and
\* after row i
DonorsBefore(data, i) ==
    {j \in Positions(data) : j < i /\ At(data, j).g = At(data, i).g /\ At(data, j).v # None}
DonorsAfter(data, i) ==
    {j \in Positions(data) : j > i /\ At(data, j).g = At(data, i).g /\ At(data, j).v # None}

\* C40: grouped forward fill replaces a null by the last non-null value of the
\* same group before that row of the table, grouped backward fill by the first
\* non-null value of the same group after it; where the group has no such
\* value the fallback is used, which is null for the fills, and non-null
\* values are never changed.
C40_GroupedFillWithinGroup ==
    last.op = "_perform_grouped_imputation"
        => LET data == last.arg.data
               forward == last.arg.imputation_method = "ffill"
           IN /\ Len(last.ret) = Len(data)
              /\ \A i \in Positions(data) :
                    LET donors == IF forward THEN DonorsBefore(data, i)
                                  ELSE DonorsAfter(data, i)
                        donor == IF forward THEN Max(donors) ELSE Min(donors)
                    IN At(last.ret, i) =
                          IF At(data, i).v # None THEN At(data, i).v
                          ELSE IF donors # {} THEN At(data, donor).v
                          ELSE None

----------------------------------------------------------------------------
(* Properties of upload, filtering and completion (SpecCfw) *)

\* C34: with a location, run_calculation uploads only when every declared
\* child of the instance is in the already-satisfied tracker or among the
\* features just computed, whatever ids the tracker holds.
C34_NoUploadWhileChildMissing ==
    [][(last'.op = "run_calculation" /\ last'.uploaded)
         => cfw[last'.inst].children_if_root
              \subseteq (cfw[last'.inst].already_calculated_children_tracker
                           \cup last'.arg)]_vars

\* C35: when run_calculation uploads, the exchange holds the table under the
\* string form of the instance's own uuid, the call returns that string, the
\* instance's data is that string and no longer the table, and the string has
\* been appended to object_ids.
C35_UploadUnderOwnUuid ==
    [][(last'.op = "run_calculation" /\ last'.uploaded)
         => LET i == last'.inst
                handle == Str(cfw[i].uuid)
            IN /\ handle \in DOMAIN flight'
               /\ IsTable(flight'[handle])
               /\ last'.ret = handle
               /\ cfw'[i].data = handle
               /\ cfw'[i].object_ids = Append(cfw[i].object_ids, handle)]_vars

\* a second upload of the same instance: the handle is in object_ids twice
C35_Witness ==
    /\ last.op = "run_calculation"
    /\ last.uploaded
    /\ cfw[last.inst].object_ids = <<Str(1), Str(1)>>
    /\ cfw[last.inst].data = Str(1)

\* the rows of the calculated data that the call's filters keep
FilteredRows(inp) ==
    IF inp.filters = {} THEN inp.result.rows
    ELSE SelectSeq(inp.result.rows, LAMBDA r : r["id"] \in inp.filters)

\* C36: run_calculation applies the final filters to the calculated data exactly
\* when the filter engine bound to the feature set declares final filtering;
\* with an engine that declares none, or a backend without an engine, the
\* calculated rows pass through unchanged, and in every case the filter stage
\* raises nothing: the call goes on to the transform.
C36_FinalFilterOnlyWhenDeclared ==
    [][ last'.op = "run_calculation"
        => LET i == last'.inst
               c == cfw[i]
               inp == last'.inp
               in_passed == DataAtInput(c, inp) = None \/ ValidationPasses(inp.vin)
               out == IF last'.uploaded THEN flight'[last'.ret] ELSE cfw'[i].data
           IN in_passed
                => /\ IsPrefix(SubSeq(PipelineOrder, 1, 4), last'.stages)
                   /\ IsTable(out)
                   /\ out.rows = IF filter_engine(c.cls) = "final_filters"
                                 THEN FilteredRows(inp)
                                 ELSE inp.result.rows
      ]_vars

\* a call with filters on a backend whose engine declares no final filtering:
\* the rows the filters would drop are still there
C36_Witness ==
    /\ last.op = "run_calculation"
    /\ cfw[last.inst].cls = "ReadFilterFramework"
    /\ last.inp.filters = {1}
    /\ ~IsRaise(last.ret)
    /\ IsTable(cfw[last.inst].data)
    /\ cfw[last.inst].data.rows = last.inp.result.rows
    /\ FilteredRows(last.inp) # last.inp.result.rows

\* every declared child of the instance is in its tracker
Completed(c) == c.children_if_root \subseteq c.already_calculated_children_tracker

\* C37: the tracker of an instance only grows and its declared children never
\* change, so completion is stable: a call of
\* add_already_calculated_children_and_drop_if_possible that returns True leaves
\* the instance completed, every call on a completed instance returns True and
\* leaves the data None whatever children it is given, and no such call puts
\* data back on the instance.
C37_CompletionIsStable ==
    [][ /\ \A i \in Inst :
             /\ cfw[i].already_calculated_children_tracker
                   \subseteq cfw'[i].already_calculated_children_tracker
             /\ cfw'[i].children_if_root = cfw[i].children_if_root
        /\ last'.op = "add_children"
             => LET i == last'.inst
                IN /\ last'.ret = Bool(TRUE) => Completed(cfw'[i])
                   /\ Completed(cfw[i])
                        => /\ last'.ret = Bool(TRUE)
                           /\ cfw'[i].data = None
      ]_vars

\* a call without children on an instance that declared some and was completed
\* by an earlier call
C37_Witness ==
    /\ last.op = "add_children"
    /\ last.arg = {}
    /\ last.pre = "none"
    /\ last.ret = Bool(TRUE)
    /\ cfw[last.inst].children_if_root = {"c1", "c2"}
    /\ cfw[last.inst].data = None

\* C38: an instance declared with an empty children set is done at any call of
\* add_already_calculated_children_and_drop_if_possible, the first included,
\* whatever children are passed: the call returns True and clears the data, and
\* with a location it also drops the upload the data named from the exchange.
C38_NoChildrenDoneAtFirstCall ==
    [][ (last'.op = "add_children" /\ cfw[last'.inst].children_if_root = {})
        => LET i == last'.inst
           IN /\ last'.ret = Bool(TRUE)
              /\ cfw'[i].data = None
              /\ (IsStr(cfw[i].data) /\ Truthy(location))
                    => cfw[i].data \notin DOMAIN flight'
      ]_vars

\* the first call on an instance without children that holds data, with no
\* children passed
C38_Witness ==
    /\ last.op = "add_children"
    /\ cfw[last.inst].children_if_root = {}
    /\ hist.passed[last.inst] = {}
    /\ last.arg = {}
    /\ last.pre # "none"
    /\ last.drops = 1
    /\ last.ret = Bool(TRUE)
    /\ cfw[last.inst].data = None

====
